---------------------------- MODULE Spec2Model ----------------------------
(***************************************************************************)
(* A model of the tcprp reverse proxy's core pieces: the bidirectional     *)
(* Streamer, the per-IP rate limiter, the reverse-label domain trie, the   *)
(* route table, the protocol sniffers and the peekable connections, the    *)
(* metered streams, and the HTTP relay with its hand-over to the Streamer. *)
(*                                                                         *)
(* Every component has its own specification (SpecStream, SpecLimiter,     *)
(* ...).  A specification moves the variables of its component and keeps   *)
(* the variables of the other components at their idle values.             *)
(***************************************************************************)
EXTENDS Integers, Sequences, FiniteSets, TLC

(***************************************************************************)
(* Streamer: core/proxy/stream.go and the second copy of the file that     *)
(* follows the connListener in core/proxy/connln.go.                       *)
(***************************************************************************)
VARIABLES
    file,        \* which of the two copies of the Streamer runs
    isConn,      \* side -> the argument is a net.Conn (so also an io.Closer)
    connClosed,  \* side -> Close() was called on the connection
    peer,        \* side -> what the remote end did: "open", "eof", "reset"
    inbuf,       \* side -> chunks received and not yet read
    sent,        \* side -> chunks the remote end has sent in total
    cpc,         \* direction -> where the copy task of that direction is
    cret,        \* direction -> the value the copy task returns
    closer,      \* direction -> the goroutine that closes src on ctx.Done
    errch,       \* the buffered channel errch (capacity ErrchCap)
    spc,         \* where Stream itself is
    result,      \* what Stream returned
    ctxDone,     \* cancel() was called
    wfailed,     \* direction -> a dst.Write of that direction failed
    eofSeen      \* direction -> a src.Read of that direction returned io.EOF

streamVars == <<file, isConn, connClosed, peer, inbuf, sent, cpc, cret, closer,
                errch, spc, result, ctxDone, wfailed, eofSeen>>

(***************************************************************************)
(* Rate limiter: package limiter (unnamed/part_004).                       *)
(***************************************************************************)
VARIABLES
    lim,         \* the Limiter's fields: rate, burst, cooldown
    now,         \* the clock, in ticks
    clients,     \* ip -> the client's bucket (l.clients)
    ncalls,      \* ip -> allow calls since the ip was first seen
    emptyDeny,   \* ip -> time of the last deny on an empty bucket (0: none)
    firstSeen,   \* ip -> time the ip's bucket was created (0: never)
    cdHits,      \* ip -> calls the cooldown denied since the last empty deny
    call         \* the last allow call and what it saw

limVars == <<lim, now, clients, ncalls, emptyDeny, firstSeen, cdHits,
             call>>

(***************************************************************************)
(* Domain trie: package config (unnamed/part_003).                         *)
(***************************************************************************)
VARIABLES
    trie,        \* node (path of labels from the root) -> value or "nil"
    got,         \* the last operation on the trie and what it returned
    live         \* the domains that were Set and not deleted since

trieVars == <<trie, got, live>>

(***************************************************************************)
(* Route table of a Proxy: package config (core/config/proxy.go).          *)
(***************************************************************************)
VARIABLES
    Routes,        \* p.Routes: the routes in the order they were given
    sortedRoutes,  \* p.sortedRoutes: what MatchRoute walks
    matched        \* the RouteResult of the last MatchRoute on these routes

routeVars == <<Routes, sortedRoutes, matched>>

(***************************************************************************)
(* Protocol sniffing: Sniffer over a TeeConn (unnamed/part_009 and          *)
(* core/proxy/tee_conn.go), Sniff over a PeekableConn (core/proxy/sniff.go *)
(* and unnamed/part_008).                                                  *)
(***************************************************************************)
VARIABLES
    impl,        \* "Sniffer" (TeeConn) or "Sniff" (PeekableConn)
    wire,        \* the bytes the client sends on the connection, in all
    arrived,     \* how many of them have reached the socket
    peerDone,    \* the client closed its end after the last byte
    pos,         \* how many were read from the socket
    buf,         \* TeeConn.buf, or the unread bytes of the bufio.Reader
    bufNil,      \* TeeConn.buf was set to nil
    snpc,        \* where the sniffer is: "peek", "more", "done"
    peeked,      \* peekedBytes, then the buffer the last test was made on
    more,        \* n2, the bytes the extended read returned
    proto,       \* the protocol returned ("" before)
    failed,      \* a read of the sniffer ended on the deadline or on EOF
    delivered    \* the bytes the Read calls on the wrapped connection returned

sniffVars == <<impl, wire, arrived, peerDone, pos, buf, bufNil, snpc, peeked,
               more, proto, failed, delivered>>

(***************************************************************************)
(* Metered streams: package metrics (unnamed/part_001).                    *)
(***************************************************************************)
VARIABLES
    wrapper,       \* "MetricsReadWriter" or "MetricsReadWriteCloser"
    IngressBytes,  \* Metrics.IngressBytes
    EgressBytes,   \* Metrics.EgressBytes
    readSum,       \* the sum of the n > 0 the underlying reads returned
    writeSum,      \* the sum of the n > 0 the underlying writes returned
    io             \* the last call through the wrapper

metricVars == <<wrapper, IngressBytes, EgressBytes, readSum, writeSum, io>>

\* The HTTP relay and the stream pass of one accepted connection
\* (Proxy.Handler, Proxy.http, Proxy.stream).
VARIABLES
    rpc,         \* where the handler of the connection is
    rfile,       \* the file Stream is taken from
    entry,       \* the config.Proxy the handler got for the SNI
    req,         \* the request of the current iteration of Proxy.http
    resp,        \* the response http.ReadResponse returned for it
    clientConn,  \* conn, as the proxy holds it: "open" or "closed"
    backend,     \* backend of the current iteration: "none", "open", "closed"
    written,     \* the status codes of the responses written to the client
    rlog,        \* what the handler has done so far on this connection
    ws           \* the two byte streams once Stream has been called

relayVars == <<rpc, rfile, entry, req, resp, clientConn, backend, written,
               rlog, ws>>

\* One call of matchesRoute (core/config/proxy.go).
VARIABLES
    mPath,     \* the path given to matchesRoute
    mPattern,  \* the pattern given to matchesRoute
    mDone,     \* the call has returned
    mResult    \* what it returned

matchVars == <<mPath, mPattern, mDone, mResult>>

\* The configuration and its loading (core/config/config.go).
VARIABLES
    configFile,  \* the ConfigFile yaml.Unmarshal produced: domain -> ProxyConfig
    Proxies,     \* Config.Proxies: the Proxy registered for each domain
    cfgOp        \* the last call on the Config and what it returned

loadVars == <<configFile, Proxies, cfgOp>>

\* The accept loop of startAction (cmd/cmd.go).
VARIABLES
    apc,         \* where startAction is: "select", "accept" or "returned"
    rootDone,    \* the root context has been cancelled
    lnState,     \* the listener: "open" or "closed"
    backlog,     \* the client connections waiting to be accepted
    narrived,    \* the client connections that have arrived so far
    handlers,    \* the proxy.Handler goroutines started
    acceptErrs,  \* the errors other than net.ErrClosed Accept has returned
    aret,        \* what startAction returned: "none", "ctx.Err" or "nil"
    hended,      \* the proxy.Handler goroutines that have returned
    handlerErrs  \* those of them that returned an error

acceptVars == <<apc, rootDone, lnState, backlog, narrived, handlers,
                acceptErrs, aret, hended, handlerErrs>>

\* StreamWithContext (core/proxy/stream.go, connln.go): what it has besides
\* the copy tasks, the connections and errch of the Streamer.
VARIABLES
    wpc,        \* where StreamWithContext itself is
    parentDone, \* the context given to StreamWithContext has been cancelled
    doneClosed, \* close(done): the goroutine of wg.Wait() has closed done
    atCancel    \* both copy tasks were blocked in Read when ctx was cancelled

swcVars == <<wpc, parentDone, doneClosed, atCancel>>

\* Concurrent calls of Limiter.allow(ip) for one IP (unnamed/part_004).
VARIABLES
    cburst,    \* l.burst
    cmapEntry, \* l.clients[ip]: "none", or the goroutine whose client is stored
    cbuckets,  \* goroutine -> the client it created: tokens and cooldown
    gpc,       \* goroutine -> where it is in allow
    gclient,   \* goroutine -> c, the client its call works on
    gcalls,    \* goroutine -> the calls it has finished
    nallowed   \* the calls that returned true

raceVars == <<cburst, cmapEntry, cbuckets, gpc, gclient, gcalls, nallowed>>

\* The dispatcher: Proxy.Handler of unnamed/part_005, after the sniffer.
VARIABLES
    dpc,      \* where Handler is: "sniff", "http", "tls", "returned"
    hsOk,     \* "none", or how tlsConn.Handshake() ended: "ok", "failed"
    hsALPN,   \* ConnectionState().NegotiatedProtocol
    hsSNI,    \* ConnectionState().ServerName
    dbranch,  \* the handler the connection went to: "", "http", "tls", "tcp"
    dclosed,  \* the client connection has been closed
    ddialed,  \* a backend has been dialed
    dret      \* what Handler returned: "none", "nil", "err"

dispVars == <<dpc, hsOk, hsALPN, hsSNI, dbranch, dclosed, ddialed, dret>>

\* Concurrent callers of Metrics.GetIngressBytesDelta / GetEgressBytesDelta
\* (unnamed/part_001).
VARIABLES
    dfield,     \* the counter the callers ask for: "IngressBytes", "EgressBytes"
    dcounter,   \* m.IngressBytes (m.EgressBytes)
    dlastSnap,  \* m.lastIngressBytes (m.lastEgressBytes)
    nadded,     \* the Add calls so far
    qpc,        \* caller -> where it is in the getter
    qcur,       \* caller -> its local current
    qlst,       \* caller -> its local last
    qcalls,     \* caller -> the calls it has finished
    deltaSum,   \* the sum of the deltas returned so far
    deltaLast   \* the delta returned last

deltaVars == <<dfield, dcounter, dlastSnap, nadded, qpc, qcur, qlst, qcalls,
               deltaSum, deltaLast>>

\* Trie.Set running beside Trie.Delete (unnamed/part_003).  The nodes are
\* cells of a heap, so that a node taken out of its parent's map is still
\* there for the goroutine that holds a pointer to it.
VARIABLES
    heap,      \* node -> [children: label -> node or 0, value]
    heapNext,  \* the next free cell
    setDom,    \* the domain Set is called with
    setPc,     \* where Set is: "absent", "get", "value", "done", "panic"
    setNode,   \* Set's local node
    setIdx,    \* Set's local i (1-based)
    delPc,     \* where Delete is: "walk", "value", "prune", "remove", "done"
    delPath,   \* Delete's local path
    delIdx     \* Delete's local i (1-based)

tsdVars == <<heap, heapNext, setDom, setPc, setNode, setIdx, delPc, delPath,
             delIdx>>

vars == <<streamVars, limVars, trieVars, routeVars, sniffVars, metricVars,
          relayVars, matchVars, loadVars, acceptVars, swcVars, raceVars,
          dispVars, deltaVars, tsdVars>>

\* What a step of one component leaves unchanged: the other components.
notStreamVars == <<limVars, trieVars, routeVars, sniffVars, metricVars,
                   relayVars, matchVars, loadVars, acceptVars, swcVars,
                   raceVars, dispVars, deltaVars, tsdVars>>

notLimVars == <<streamVars, trieVars, routeVars, sniffVars, metricVars,
                relayVars, matchVars, loadVars, acceptVars, swcVars,
                raceVars, dispVars, deltaVars, tsdVars>>

notTrieVars == <<streamVars, limVars, routeVars, sniffVars, metricVars,
                 relayVars, matchVars, loadVars, acceptVars, swcVars,
                 raceVars, dispVars, deltaVars, tsdVars>>

notRouteVars == <<streamVars, limVars, trieVars, sniffVars, metricVars,
                  relayVars, matchVars, loadVars, acceptVars, swcVars,
                  raceVars, dispVars, deltaVars, tsdVars>>

notSniffVars == <<streamVars, limVars, trieVars, routeVars, metricVars,
                  relayVars, matchVars, loadVars, acceptVars, swcVars,
                  raceVars, dispVars, deltaVars, tsdVars>>

notMetricVars == <<streamVars, limVars, trieVars, routeVars, sniffVars,
                   relayVars, matchVars, loadVars, acceptVars, swcVars,
                   raceVars, dispVars, deltaVars, tsdVars>>

notRelayVars == <<streamVars, limVars, trieVars, routeVars, sniffVars,
                  metricVars, matchVars, loadVars, acceptVars, swcVars,
                  raceVars, dispVars, deltaVars, tsdVars>>

notMatchVars == <<streamVars, limVars, trieVars, routeVars, sniffVars,
                  metricVars, relayVars, loadVars, acceptVars, swcVars,
                  raceVars, dispVars, deltaVars, tsdVars>>

notLoadVars == <<streamVars, limVars, trieVars, routeVars, sniffVars,
                 metricVars, relayVars, matchVars, acceptVars, swcVars,
                 raceVars, dispVars, deltaVars, tsdVars>>

notAcceptVars == <<streamVars, limVars, trieVars, routeVars, sniffVars,
                   metricVars, relayVars, matchVars, loadVars, swcVars,
                   raceVars, dispVars, deltaVars, tsdVars>>

notSwcVars == <<streamVars, limVars, trieVars, routeVars, sniffVars,
                metricVars, relayVars, matchVars, loadVars, acceptVars,
                raceVars, dispVars, deltaVars, tsdVars>>

notRaceVars == <<streamVars, limVars, trieVars, routeVars, sniffVars,
                 metricVars, relayVars, matchVars, loadVars, acceptVars,
                 swcVars, dispVars, deltaVars, tsdVars>>

notDispVars == <<streamVars, limVars, trieVars, routeVars, sniffVars,
                 metricVars, relayVars, matchVars, loadVars, acceptVars,
                 swcVars, raceVars, deltaVars, tsdVars>>

notDeltaVars == <<streamVars, limVars, trieVars, routeVars, sniffVars,
                  metricVars, relayVars, matchVars, loadVars, acceptVars,
                  swcVars, raceVars, dispVars, tsdVars>>

notTsdVars == <<streamVars, limVars, trieVars, routeVars, sniffVars,
                metricVars, relayVars, matchVars, loadVars, acceptVars,
                swcVars, raceVars, dispVars, deltaVars>>

\* What a step of StreamWithContext leaves unchanged besides the Streamer's
\* variables and its own.
notStreamCtxVars == <<limVars, trieVars, routeVars, sniffVars, metricVars,
                      relayVars, matchVars, loadVars, acceptVars, raceVars,
                      dispVars, deltaVars, tsdVars>>

\* Stream(src, dst): a side is named after the parameter, a direction after the
\* side it reads from ("src" is the copy src -> dst, "dst" the copy
\* dst -> src).
Sides == {"src", "dst"}

Other(s) == IF s = "src" THEN "dst" ELSE "src"

\* make(chan error, 1)
ErrchCap == 1

\* The remote end of a side sends at most MaxData chunks.
MaxData == 2

Files == {"stream.go", "connln.go"}

StreamInit ==
    /\ file \in Files
    /\ isConn \in [Sides -> BOOLEAN]
    /\ connClosed = [s \in Sides |-> FALSE]
    /\ peer = [s \in Sides |-> "open"]
    /\ inbuf = [s \in Sides |-> 0]
    /\ sent = [s \in Sides |-> 0]
    /\ cpc = [d \in Sides |-> "start"]
    /\ cret = [d \in Sides |-> "none"]
    /\ closer = [d \in Sides |-> "none"]
    /\ errch = <<>>
    /\ spc = "wait"
    /\ result = "none"
    /\ ctxDone = FALSE
    /\ wfailed = [d \in Sides |-> FALSE]
    /\ eofSeen = [d \in Sides |-> FALSE]

\* The values of the Streamer's variables in the specifications of the other
\* components.
StreamIdle ==
    /\ file = "stream.go"
    /\ isConn = [s \in Sides |-> TRUE]
    /\ connClosed = [s \in Sides |-> FALSE]
    /\ peer = [s \in Sides |-> "open"]
    /\ inbuf = [s \in Sides |-> 0]
    /\ sent = [s \in Sides |-> 0]
    /\ cpc = [d \in Sides |-> "start"]
    /\ cret = [d \in Sides |-> "none"]
    /\ closer = [d \in Sides |-> "none"]
    /\ errch = <<>>
    /\ spc = "wait"
    /\ result = "none"
    /\ ctxDone = FALSE
    /\ wfailed = [d \in Sides |-> FALSE]
    /\ eofSeen = [d \in Sides |-> FALSE]

-----------------------------------------------------------------------------
\* The remote ends.

PeerSend(s) ==
    /\ peer[s] = "open"
    /\ sent[s] < MaxData
    /\ sent' = [sent EXCEPT ![s] = @ + 1]
    /\ inbuf' = [inbuf EXCEPT ![s] = @ + 1]
    /\ UNCHANGED <<file, isConn, connClosed, peer, cpc, cret, closer, errch,
                   spc, result, ctxDone, wfailed, eofSeen>>
    /\ UNCHANGED notStreamVars

\* The remote end closes its side: reads see io.EOF once the data is drained.
PeerClose(s) ==
    /\ peer[s] = "open"
    /\ peer' = [peer EXCEPT ![s] = "eof"]
    /\ UNCHANGED <<file, isConn, connClosed, inbuf, sent, cpc, cret, closer,
                   errch, spc, result, ctxDone, wfailed, eofSeen>>
    /\ UNCHANGED notStreamVars

\* The remote end resets the connection: reads and writes fail.
PeerReset(s) ==
    /\ peer[s] = "open"
    /\ peer' = [peer EXCEPT ![s] = "reset"]
    /\ inbuf' = [inbuf EXCEPT ![s] = 0]
    /\ UNCHANGED <<file, isConn, connClosed, sent, cpc, cret, closer, errch,
                   spc, result, ctxDone, wfailed, eofSeen>>
    /\ UNCHANGED notStreamVars

-----------------------------------------------------------------------------
\* CopyWithContext / copyWithContext, one action per blocking step.

\* The goroutine that waits for ctx.Done and closes src is started when src is
\* a net.Conn.
CopyStart(d) ==
    /\ cpc[d] = "start"
    /\ closer' = [closer EXCEPT ![d] = IF isConn[d] THEN "armed" ELSE "none"]
    /\ cpc' = [cpc EXCEPT ![d] = "check"]
    /\ UNCHANGED <<file, isConn, connClosed, peer, inbuf, sent, cret, errch,
                   spc, result, ctxDone, wfailed, eofSeen>>
    /\ UNCHANGED notStreamVars

\* select { case <-ctx.Done(): return ctx.Err(); default: }
CopyCheck(d) ==
    /\ cpc[d] = "check"
    /\ IF ctxDone
       THEN /\ cret' = [cret EXCEPT ![d] = "ctxErr"]
            /\ cpc' = [cpc EXCEPT ![d] = "send"]
       ELSE /\ cpc' = [cpc EXCEPT ![d] = "read"]
            /\ UNCHANGED cret
    /\ UNCHANGED <<file, isConn, connClosed, peer, inbuf, sent, closer, errch,
                   spc, result, ctxDone, wfailed, eofSeen>>
    /\ UNCHANGED notStreamVars

\* What a read error becomes: connln.go's copy turns io.EOF into nil,
\* stream.go's copy returns it as it is.
ReadErrReturn(f, err) ==
    IF err = "EOF" /\ f = "connln.go" THEN "nil" ELSE err

\* n, readErr := src.Read(buf).  Stream's context has no deadline, so only a
\* write deadline is set and the read blocks until data, EOF or an error.
CopyRead(d) ==
    /\ cpc[d] = "read"
    /\ \/ /\ connClosed[d]
          /\ cret' = [cret EXCEPT ![d] = ReadErrReturn(file, "readErr")]
          /\ cpc' = [cpc EXCEPT ![d] = "send"]
          /\ UNCHANGED <<inbuf, eofSeen>>
       \/ /\ ~connClosed[d]
          /\ inbuf[d] > 0
          /\ \E n \in 1..inbuf[d] : inbuf' = [inbuf EXCEPT ![d] = @ - n]
          /\ cpc' = [cpc EXCEPT ![d] = "write"]
          /\ UNCHANGED <<cret, eofSeen>>
       \/ /\ ~connClosed[d]
          /\ inbuf[d] = 0
          /\ peer[d] = "eof"
          /\ cret' = [cret EXCEPT ![d] = ReadErrReturn(file, "EOF")]
          /\ eofSeen' = [eofSeen EXCEPT ![d] = TRUE]
          /\ cpc' = [cpc EXCEPT ![d] = "send"]
          /\ UNCHANGED inbuf
       \/ /\ ~connClosed[d]
          /\ inbuf[d] = 0
          /\ peer[d] = "reset"
          /\ cret' = [cret EXCEPT ![d] = ReadErrReturn(file, "readErr")]
          /\ cpc' = [cpc EXCEPT ![d] = "send"]
          /\ UNCHANGED <<inbuf, eofSeen>>
    /\ UNCHANGED <<file, isConn, connClosed, peer, sent, closer, errch, spc,
                   result, ctxDone, wfailed>>
    /\ UNCHANGED notStreamVars

\* _, writeErr := dst.Write(buf[:n]): a write to a closed or reset connection
\* fails; any other write may fail too (the 5 s write deadline, a broken pipe).
CopyWrite(d) ==
    /\ cpc[d] = "write"
    /\ \E ok \in BOOLEAN :
         /\ ok => ~connClosed[Other(d)] /\ peer[Other(d)] # "reset"
         /\ IF ok
            THEN /\ cpc' = [cpc EXCEPT ![d] = "check"]
                 /\ UNCHANGED <<cret, wfailed>>
            ELSE /\ cret' = [cret EXCEPT ![d] = "writeErr"]
                 /\ wfailed' = [wfailed EXCEPT ![d] = TRUE]
                 /\ cpc' = [cpc EXCEPT ![d] = "send"]
    /\ UNCHANGED <<file, isConn, connClosed, peer, inbuf, sent, closer, errch,
                   spc, result, ctxDone, eofSeen>>
    /\ UNCHANGED notStreamVars

\* Whether the task sends its result on errch: stream.go sends whatever the
\* copy returned, connln.go only a non-nil error.
SendsResult(f, ret) == f = "stream.go" \/ ret # "nil"

\* The end of the function given to wg.Go: the send on errch blocks while the
\* channel is full; the task is done (wg.Done) once the function has returned.
CopyFinish(d) ==
    /\ cpc[d] = "send"
    /\ IF SendsResult(file, cret[d])
       THEN /\ Len(errch) < ErrchCap
            /\ errch' = Append(errch, cret[d])
       ELSE UNCHANGED errch
    /\ cpc' = [cpc EXCEPT ![d] = "done"]
    /\ UNCHANGED <<file, isConn, connClosed, peer, inbuf, sent, cret, closer,
                   spc, result, ctxDone, wfailed, eofSeen>>
    /\ UNCHANGED notStreamVars

\* go func() { <-ctx.Done(); conn.Close() }()
CloserFire(d) ==
    /\ closer[d] = "armed"
    /\ ctxDone
    /\ closer' = [closer EXCEPT ![d] = "fired"]
    /\ connClosed' = [connClosed EXCEPT ![d] = TRUE]
    /\ UNCHANGED <<file, isConn, peer, inbuf, sent, cpc, cret, errch, spc,
                   result, ctxDone, wfailed, eofSeen>>
    /\ UNCHANGED notStreamVars

-----------------------------------------------------------------------------
\* Stream.

\* closeConnection: only an io.Closer is closed.
closeConnection(closed, s) ==
    IF isConn[s] THEN [closed EXCEPT ![s] = TRUE] ELSE closed

\* wg.Wait(); closeConnection(src); closeConnection(dst)
StreamWaitClose ==
    /\ spc = "wait"
    /\ \A d \in Sides : cpc[d] = "done"
    /\ connClosed' = closeConnection(closeConnection(connClosed, "src"), "dst")
    /\ spc' = "recv"
    /\ UNCHANGED <<file, isConn, peer, inbuf, sent, cpc, cret, closer, errch,
                   result, ctxDone, wfailed, eofSeen>>
    /\ UNCHANGED notStreamVars

\* return <-errch, then the deferred cancel()
StreamReturn ==
    /\ spc = "recv"
    /\ Len(errch) > 0
    /\ result' = Head(errch)
    /\ errch' = Tail(errch)
    /\ spc' = "returned"
    /\ ctxDone' = TRUE
    /\ UNCHANGED <<file, isConn, connClosed, peer, inbuf, sent, cpc, cret,
                   closer, wfailed, eofSeen>>
    /\ UNCHANGED notStreamVars

\* The steps of the program (Stream and its goroutines).
StreamProgram ==
    \/ \E d \in Sides : CopyStart(d)
    \/ \E d \in Sides : CopyCheck(d)
    \/ \E d \in Sides : CopyRead(d)
    \/ \E d \in Sides : CopyWrite(d)
    \/ \E d \in Sides : CopyFinish(d)
    \/ \E d \in Sides : CloserFire(d)
    \/ StreamWaitClose
    \/ StreamReturn

\* The steps of the two remote ends.
StreamPeers ==
    \/ \E s \in Sides : PeerSend(s)
    \/ \E s \in Sides : PeerClose(s)
    \/ \E s \in Sides : PeerReset(s)

(***************************************************************************)
(* The rate limiter.  Time is counted in ticks, TicksPerSecond to a        *)
(* second; a bucket holds its tokens in units of 1/TicksPerSecond token,   *)
(* so that a rate of r tokens per second adds r units per tick.            *)
(***************************************************************************)
TicksPerSecond == 2

MaxTime == 5

MaxCalls == 5

IPs == {"10.0.0.1", "10.0.0.2"}

\* WithDefaultRPS, WithDefaultBurst, WithDefaultCooldown (5 * time.Minute, in
\* seconds)
DefaultRPS == 10

DefaultBurst == 10

DefaultCooldownSeconds == 300

\* The option values New is called with (0: the option is not given); a
\* cooldown is given in ticks.
RateOpts == {0, 1, 2}

BurstOpts == {0, 1, 2}

CooldownOpts == {0, 1, 3}

\* limiter.New: the options, then the defaults for the fields left at zero.
\* rps and burstOpt are not fields of the Limiter: they record the values New
\* was called with.
New(rps, burst, cooldown) ==
    [rate |-> IF rps = 0 THEN DefaultRPS ELSE rps,
     burst |-> IF burst = 0 THEN DefaultBurst ELSE burst,
     cooldown |-> IF cooldown = 0
                  THEN DefaultCooldownSeconds * TicksPerSecond
                  ELSE cooldown,
     rps |-> rps,
     burstOpt |-> burst]

\* A bucket that starts empty.
NewClientEmpty(l, t) ==
    [exists |-> TRUE, tokens |-> 0, last |-> t, lastSeen |-> t, cooldown |-> 0]

NoClient == [exists |-> FALSE, tokens |-> 0, last |-> 0, lastSeen |-> 0,
             cooldown |-> 0]

\* &client{limiter: rate.NewLimiter(l.rate, l.burst), lastSeen: now}: a new
\* rate.Limiter holds burst tokens; cooldown is the zero time.
NewClient(l, t) ==
    [exists |-> TRUE, tokens |-> l.burst * TicksPerSecond, last |-> t,
     lastSeen |-> t, cooldown |-> 0]

NoCall == [ip |-> "", t |-> 0, res |-> "none", why |-> "none", avail |-> 0,
           n |-> 0, created |-> 0, denied |-> 0]

LimiterInit ==
    /\ \E r \in RateOpts, b \in BurstOpts, c \in CooldownOpts :
           lim = New(r, b, c)
    /\ now = 1
    /\ clients = [ip \in IPs |-> NoClient]
    /\ ncalls = [ip \in IPs |-> 0]
    /\ emptyDeny = [ip \in IPs |-> 0]
    /\ firstSeen = [ip \in IPs |-> 0]
    /\ cdHits = [ip \in IPs |-> 0]
    /\ call = NoCall

LimiterIdle ==
    /\ lim = New(0, 0, 0)
    /\ now = 1
    /\ clients = [ip \in IPs |-> NoClient]
    /\ ncalls = [ip \in IPs |-> 0]
    /\ emptyDeny = [ip \in IPs |-> 0]
    /\ firstSeen = [ip \in IPs |-> 0]
    /\ cdHits = [ip \in IPs |-> 0]
    /\ call = NoCall

\* rate.Limiter.advance: the tokens of bucket c at time t, at most burst.
Advance(l, c, t) ==
    LET t2 == c.tokens + (t - c.last) * l.rate
        cap == l.burst * TicksPerSecond
    IN  IF t2 > cap THEN cap ELSE t2

\* The cooldown test made on the time the client was last seen.
InCooldownLastSeen(c, t) == t < c.lastSeen

\* now.Before(time.Unix(0, atomic.LoadInt64(&c.cooldown)))
InCooldown(c, t) == t < c.cooldown

\* A call denied by the cooldown that still counts as a sighting of the IP.
DeniedInCooldownSeen(l, c, t) == [c EXCEPT !.lastSeen = t]

\* A call denied by the cooldown that starts the cooldown again.
DeniedInCooldownExtends(l, c, t) == [c EXCEPT !.cooldown = t + l.cooldown]

\* The bucket a call denied by the cooldown leaves: allow returns false before
\* it touches the limiter, the cooldown or lastSeen.
DeniedInCooldown(l, c, t) == c

\* The cooldown a deny on an empty bucket stores: now.Add(l.cooldown).
CooldownUntil(l, t) == t + l.cooldown

\* Limiter.allow(ip) at time t on the bucket map cs: the result, why, and the
\* bucket map it leaves.
allow(l, cs, ip, t) ==
    LET c == IF cs[ip].exists THEN cs[ip] ELSE NewClient(l, t)
        avail == Advance(l, c, t)
    IN  IF InCooldown(c, t)
        THEN [res |-> "deny", why |-> "cooldown", avail |-> avail,
              clients |-> [cs EXCEPT ![ip] = DeniedInCooldown(l, c, t)]]
        ELSE IF avail < TicksPerSecond
        THEN [res |-> "deny", why |-> "empty", avail |-> avail,
              clients |-> [cs EXCEPT ![ip] =
                              [c EXCEPT !.cooldown = CooldownUntil(l, t)]]]
        ELSE [res |-> "allow", why |-> "ok", avail |-> avail,
              clients |-> [cs EXCEPT ![ip] =
                              [c EXCEPT !.tokens = avail - TicksPerSecond,
                                        !.last = t,
                                        !.lastSeen = t]]]

TotalCalls == ncalls["10.0.0.1"] + ncalls["10.0.0.2"]

\* AllowIP(ip): true at once for a limiter whose rate or burst is zero,
\* allow(ip) otherwise.
AllowIP(l, cs, ip, t) ==
    IF l.rate = 0 \/ l.burst = 0
    THEN [res |-> "allow", why |-> "disabled", avail |-> 0, clients |-> cs]
    ELSE allow(l, cs, ip, t)

\* A call of AllowIP(ip), or of Allow(conn) for a connection from ip, at the
\* current time.
Allow(ip) ==
    /\ TotalCalls < MaxCalls
    /\ LET r == AllowIP(lim, clients, ip, now)
           created == IF clients[ip].exists THEN firstSeen[ip] ELSE now
       IN  /\ clients' = r.clients
           /\ firstSeen' = [firstSeen EXCEPT ![ip] = created]
           /\ cdHits' = [cdHits EXCEPT ![ip] =
                             IF r.why = "cooldown" THEN @ + 1
                             ELSE IF r.why = "empty" THEN 0 ELSE @]
           /\ ncalls' = [ncalls EXCEPT ![ip] = @ + 1]
           /\ emptyDeny' = IF r.why = "empty"
                           THEN [emptyDeny EXCEPT ![ip] = now]
                           ELSE emptyDeny
           /\ call' = [ip |-> ip, t |-> now, res |-> r.res, why |-> r.why,
                       avail |-> r.avail, n |-> ncalls[ip] + 1,
                       created |-> created, denied |-> emptyDeny[ip]]
    /\ UNCHANGED <<lim, now>>
    /\ UNCHANGED notLimVars

\* Time passes.
Tick ==
    /\ now < MaxTime
    /\ now' = now + 1
    /\ UNCHANGED <<lim, clients, ncalls, emptyDeny, firstSeen, cdHits, call>>
    /\ UNCHANGED notLimVars

LimiterProgram ==
    \/ \E ip \in IPs : Allow(ip)
    \/ Tick

\* The ages Cleanup is called with, in ticks.
MaxAges == {0, 1, 3}

\* time.Unix(0, c.Val.lastSeen).Before(cutoff) with cutoff = now - maxAge
Stale(c, t, maxAge) == c.exists /\ c.lastSeen < t - maxAge

\* Cleanup(maxAge): every client last seen before the cutoff is removed from
\* the map (a call that removes none is a stuttering step).
Cleanup ==
    /\ \E maxAge \in MaxAges :
           clients' = [ip \in IPs |-> IF Stale(clients[ip], now, maxAge)
                                      THEN NoClient
                                      ELSE clients[ip]]
    /\ clients' # clients
    /\ UNCHANGED <<lim, now, ncalls, emptyDeny, firstSeen, cdHits, call>>
    /\ UNCHANGED notLimVars

(***************************************************************************)
(* Domain trie.  A string is a sequence of characters; a node of the trie  *)
(* is named by the labels on the way from the root to it.                  *)
(***************************************************************************)
Dot == "."

Star == <<"*">>

\* The domains the trie is used with.
Domains == { <<"a", ".", "c">>, <<"*", ".", "c">>, <<"o", ".", "c">>,
             <<"x", ".", "a", ".", "c">>, <<"c">> }

\* Domains that are looked up and never stored.
Queries == { <<"z", ".", "c">>, <<"y", ".", "a", ".", "c">> }

Values == {"v1", "v2"}

RECURSIVE Split(_, _)
\* strings.Split(s, sep) for a separator of one character.
Split(s, sep) ==
    IF \A i \in 1..Len(s) : s[i] # sep
    THEN <<s>>
    ELSE LET i == CHOOSE k \in 1..Len(s) :
                      s[k] = sep /\ \A j \in 1..(k - 1) : s[j] # sep
         IN  <<SubSeq(s, 1, i - 1)>> \o Split(SubSeq(s, i + 1, Len(s)), sep)

\* No node: a path no domain has, its label holds the separator.
NoNode == << <<".">> >>

Root == << >>

\* NewTrie(): a root without children and without value.
NewTrie == [n \in {Root} |-> "nil"]

\* node.children.Get(part) on node n of trie t.
HasChild(t, n, part) == Append(n, part) \in DOMAIN t

\* node.children.Count()
ChildCount(t, n) ==
    Cardinality({m \in DOMAIN t : Len(m) = Len(n) + 1
                                   /\ SubSeq(m, 1, Len(n)) = n})

\* A lookup that tries the wildcard child before the exact one.
StepWildcardFirst(t, n, part) ==
    IF HasChild(t, n, Star) THEN Append(n, Star)
    ELSE IF HasChild(t, n, part) THEN Append(n, part)
    ELSE NoNode

\* One iteration of Get's loop: the exact child, else the "*" child, else none.
Step(t, n, part) ==
    IF HasChild(t, n, part) THEN Append(n, part)
    ELSE IF HasChild(t, n, Star) THEN Append(n, Star)
    ELSE NoNode

RECURSIVE GetWalk(_, _, _, _)
\* Get's loop from i down to 1: the nodes visited, NoNode last when it fails.
GetWalk(t, n, parts, i) ==
    IF i = 0 THEN << >>
    ELSE LET m == Step(t, n, parts[i])
         IN  IF m = NoNode THEN <<NoNode>>
             ELSE <<m>> \o GetWalk(t, m, parts, i - 1)

\* A lookup that falls back to the deepest node it reached.
GetDeepest(t, domain) ==
    LET parts == Split(domain, Dot)
        walk == GetWalk(t, Root, parts, Len(parts))
        reached == {k \in 1..Len(walk) : walk[k] # NoNode}
        last == IF reached = {} THEN Root
                ELSE walk[CHOOSE k \in reached : \A j \in reached : j <= k]
    IN  [value |-> t[last], walk |-> walk]

\* Trie.Get(domain): the value found ("nil" for none) and the nodes visited.
Get(t, domain) ==
    LET parts == Split(domain, Dot)
        walk == GetWalk(t, Root, parts, Len(parts))
        last == walk[Len(walk)]
    IN  [value |-> IF last = NoNode THEN "nil" ELSE t[last], walk |-> walk]

\* The node of a domain when only exact labels are followed (Set, Delete):
\* its labels from the last to the first.
NodeOf(domain) ==
    LET parts == Split(domain, Dot)
        rev == [i \in 1..Len(parts) |-> parts[Len(parts) + 1 - i]]
    IN  rev

Prefixes(n) == {SubSeq(n, 1, k) : k \in 0..Len(n)}

\* Trie.Set(domain, value): the missing nodes of the path are created, the
\* value is stored in the last one.
Set(t, domain, value) ==
    LET n == NodeOf(domain)
    IN  [m \in DOMAIN t \cup Prefixes(n) |->
            IF m = n THEN value
            ELSE IF m \in DOMAIN t THEN t[m] ELSE "nil"]

\* A collapse that detaches the node of the domain and none of its ancestors.
PruneOnce(t, n) ==
    IF n = Root \/ t[n] # "nil" \/ ChildCount(t, n) # 0
    THEN t
    ELSE [m \in DOMAIN t \ {n} |-> t[m]]

RECURSIVE Prune(_, _)
\* Delete's second loop: from node n upwards, a node without value and
\* without children is removed from its parent; the loop stops at the first
\* node that is kept, and never removes the root.
Prune(t, n) ==
    IF n = Root \/ t[n] # "nil" \/ ChildCount(t, n) # 0
    THEN t
    ELSE Prune([m \in DOMAIN t \ {n} |-> t[m]], SubSeq(n, 1, Len(n) - 1))

\* Trie.Delete(domain): the result and the trie it leaves.
Delete(t, domain) ==
    LET n == NodeOf(domain)
    IN  IF n \notin DOMAIN t \/ t[n] = "nil"
        THEN [ok |-> FALSE, trie |-> t]
        ELSE [ok |-> TRUE, trie |-> Prune([t EXCEPT ![n] = "nil"], n)]

\* Trie.DeleteValue(domain): the value goes, the nodes stay.
DeleteValue(t, domain) ==
    LET n == NodeOf(domain)
    IN  IF n \notin DOMAIN t \/ t[n] = "nil"
        THEN [ok |-> FALSE, trie |-> t]
        ELSE [ok |-> TRUE, trie |-> [t EXCEPT ![n] = "nil"]]

\* The labels in the opposite order.
Reverse(labels) ==
    [i \in 1..Len(labels) |-> labels[Len(labels) + 1 - i]]

RECURSIVE Join(_, _)
\* strings.Join(elems, sep) for a separator of one character.
Join(elems, sep) ==
    IF Len(elems) = 0 THEN << >>
    ELSE IF Len(elems) = 1 THEN elems[1]
    ELSE elems[1] \o <<sep>> \o Join(Tail(elems), sep)

\* A key spelled from the root down.
domainRootFirst(path) == Join(path, Dot)

\* collectKeys: the path, which runs from the root down, is turned round and
\* joined with dots.
domainOf(path) == Join(Reverse(path), Dot)

\* The children of node n in trie t.
Children(t, n) ==
    {m \in DOMAIN t : Len(m) = Len(n) + 1 /\ SubSeq(m, 1, Len(n)) = n}

RECURSIVE collectKeys(_, _)
RECURSIVE IterCb(_, _)
\* Trie.collectKeys on node n: the key of the node when it holds a value, then
\* the keys below each child.
collectKeys(t, n) ==
    (IF t[n] # "nil" THEN <<domainOf(n)>> ELSE << >>)
        \o IterCb(t, Children(t, n))

\* children.IterCb: the callback runs on one child after the other, in the
\* order the map yields them.
IterCb(t, nodes) ==
    IF nodes = {} THEN << >>
    ELSE LET m == CHOOSE x \in nodes : TRUE
         IN  collectKeys(t, m) \o IterCb(t, nodes \ {m})

\* Trie.GetKeysWithVal()
GetKeysWithVal(t) == collectKeys(t, Root)

NoOp ==
    [op |-> "none", domain |-> << >>, value |-> "nil", walk |-> << >>,
     keys |-> << >>]

\* live is the set of domains that were Set and not deleted since.
TrieInit ==
    /\ trie = NewTrie
    /\ got = NoOp
    /\ live = {}

TrieIdle ==
    /\ trie = NewTrie
    /\ got = NoOp
    /\ live = {}

TrieSet ==
    \E d \in Domains, v \in Values :
        /\ trie' = Set(trie, d, v)
        /\ got' = [op |-> "Set", domain |-> d, value |-> v, walk |-> << >>,
                   keys |-> << >>]
        /\ live' = live \cup {d}
        /\ UNCHANGED notTrieVars

TrieGet ==
    \E d \in Domains \cup Queries :
        /\ got' = [op |-> "Get", domain |-> d, value |-> Get(trie, d).value,
                   walk |-> Get(trie, d).walk, keys |-> << >>]
        /\ UNCHANGED <<trie, live>>
        /\ UNCHANGED notTrieVars

TrieDelete ==
    \E d \in Domains :
        /\ trie' = Delete(trie, d).trie
        /\ got' = [op |-> "Delete", domain |-> d,
                   value |-> IF Delete(trie, d).ok THEN "true" ELSE "false",
                   walk |-> << >>, keys |-> << >>]
        /\ live' = live \ {d}
        /\ UNCHANGED notTrieVars

TrieDeleteValue ==
    \E d \in Domains :
        /\ trie' = DeleteValue(trie, d).trie
        /\ got' = [op |-> "DeleteValue", domain |-> d,
                   value |-> IF DeleteValue(trie, d).ok THEN "true"
                             ELSE "false",
                   walk |-> << >>, keys |-> << >>]
        /\ live' = live \ {d}
        /\ UNCHANGED notTrieVars

TrieKeys ==
    /\ got' = [op |-> "GetKeysWithVal", domain |-> << >>, value |-> "nil",
               walk |-> << >>, keys |-> GetKeysWithVal(trie)]
    /\ UNCHANGED <<trie, live>>
    /\ UNCHANGED notTrieVars

(***************************************************************************)
(* Route table.  Patterns and paths are sequences of characters.           *)
(***************************************************************************)
\* A proxy holds at most MaxRoutes routes.
MaxRoutes == 3

PatApiStar == <<"/", "a", "p", "i", "/", "*">>

PatApiV1Star == <<"/", "a", "p", "i", "/", "v", "1", "/", "*">>

PatSlash == <<"/">>

PatApi == <<"/", "a", "p", "i">>

PatApiV1Foo == <<"/", "a", "p", "i", "/", "v", "1", "/", "f", "o", "o">>

Patterns == {PatApiStar, PatApiV1Star, PatSlash, PatApi, PatApiV1Foo}

PathApiV1Foo == <<"/", "a", "p", "i", "/", "v", "1", "/", "f", "o", "o">>

PathApiFoo == <<"/", "a", "p", "i", "/", "f", "o", "o">>

PathOther == <<"/", "o", "t", "h", "e", "r">>

Paths == {PathApiV1Foo, PathApiFoo, PathOther, PatApi, PatSlash}

\* The patterns, rules and paths of TestConfig.
PatV1Star == <<"/", "v", "1", "/", "*">>

PatV2Star == <<"/", "v", "2", "/", "*">>

PatHealth == <<"/", "h", "e", "a", "l", "t", "h">>

PathV1Api == <<"/", "v", "1", "/", "a", "p", "i">>

PathV1ApiFoo == <<"/", "v", "1", "/", "a", "p", "i", "/", "f", "o", "o">>

PathV1Other == <<"/", "v", "1", "/", "o", "/", "v", "1">>

PathApiCreate == <<"/", "a", "p", "i", "/", "c", "r", "e", "a", "t", "e">>

FromV1Api == <<"^", "/", "v", "1", "/", "a", "p", "i">>

ToSlashGroup == <<"/", "$", "1">>

V1 == <<"/", "v", "1">>

V2 == <<"/", "v", "2">>

FromUnclosed == <<"(", "/", "v", "1">>

RewritePaths == {PathV1Api, PathV1ApiFoo, PathV1Other, PathApiCreate,
                 PatHealth, PathOther}

Targets == {"localhost:3000", "localhost:8001"}

DefaultTarget == "localhost:8080"

\* The byte of a character, for the order of Go's string comparison.
Byte == [c \in {"*", "/", "1", "2", "a", "e", "f", "h", "i", "l", "o", "p", "r",
                "t", "v"} |->
            CASE c = "*" -> 42 [] c = "/" -> 47 [] c = "1" -> 49
              [] c = "2" -> 50
              [] c = "a" -> 97 [] c = "e" -> 101 [] c = "f" -> 102
              [] c = "h" -> 104 [] c = "i" -> 105 [] c = "l" -> 108
              [] c = "o" -> 111
              [] c = "p" -> 112 [] c = "r" -> 114 [] c = "t" -> 116
              [] c = "v" -> 118]

\* a < b on strings: at the first position where they differ a has the
\* smaller byte, or a is a proper prefix of b.
StringLess(a, b) ==
    \/ \E k \in 1..Len(a) :
           /\ k <= Len(b)
           /\ SubSeq(a, 1, k - 1) = SubSeq(b, 1, k - 1)
           /\ Byte[a[k]] < Byte[b[k]]
    \/ Len(a) < Len(b) /\ SubSeq(b, 1, Len(a)) = a

HasPrefix(s, pre) == Len(s) >= Len(pre) /\ SubSeq(s, 1, Len(pre)) = pre

HasSuffix(s, suf) ==
    Len(s) >= Len(suf) /\ SubSeq(s, Len(s) - Len(suf) + 1, Len(s)) = suf

TrimSuffix(s, suf) ==
    IF HasSuffix(s, suf) THEN SubSeq(s, 1, Len(s) - Len(suf)) ELSE s

\* The comparison with the shorter pattern first.
lessShortestFirst(a, b) ==
    IF Len(a.Pattern) # Len(b.Pattern)
    THEN Len(a.Pattern) < Len(b.Pattern)
    ELSE StringLess(a.Pattern, b.Pattern)

\* The less function of sortRoutes: the longer pattern first, patterns of one
\* length in ascending order.
less(a, b) ==
    IF Len(a.Pattern) # Len(b.Pattern)
    THEN Len(a.Pattern) > Len(b.Pattern)
    ELSE StringLess(a.Pattern, b.Pattern)

Orders(n) ==
    {f \in [1..n -> 1..n] : \A i, j \in 1..n : i # j => f[i] # f[j]}

\* The copy of the routes, left in the order they were given.
copyRoutes(rs) == {rs}

\* What sortRoutes may leave in sortedRoutes: a copy of rs in an order where
\* no route is less than one before it (sort.Slice is not stable: routes that
\* compare equal come in any order); nil, here the empty sequence, for no
\* routes.
sortRoutes(rs) ==
    {srt \in {[i \in 1..Len(rs) |-> rs[f[i]]] : f \in Orders(Len(rs))} :
        \A i, j \in 1..Len(rs) : i < j => ~less(srt[j], srt[i])}

\* A prefix test without a look at the character after the pattern.
matchesRouteNoBoundary(path, pattern) ==
    IF path = pattern THEN TRUE
    ELSE IF HasSuffix(pattern, <<"/", "*">>)
    THEN HasPrefix(path, TrimSuffix(pattern, <<"/", "*">>))
    ELSE HasPrefix(path, pattern)

\* matchesRoute(path, pattern)
matchesRoute(path, pattern) ==
    IF path = pattern THEN TRUE
    ELSE IF HasSuffix(pattern, <<"/", "*">>)
    THEN LET prefix == TrimSuffix(pattern, <<"/", "*">>)
         IN  HasPrefix(path, Append(prefix, "/")) \/ path = prefix
    ELSE /\ HasPrefix(path, pattern)
         /\ \/ Len(path) = Len(pattern)
            \/ Len(path) > Len(pattern) /\ path[Len(pattern) + 1] = "/"

\* A route without a rewrite rule: RewriteRule is nil.
NoRule == [nil |-> TRUE, From |-> << >>, To |-> << >>]

RewriteRule(from, to) == [nil |-> FALSE, From |-> from, To |-> to]

\* The characters that make up a name after $ in a replacement template.
NameChars == {"1", "a", "e", "f", "h", "i", "l", "o", "p", "r", "t", "v", "c",
              "y"}

\* regexp.Compile(from), for the expressions used here: literal characters,
\* with ^ in front for a match at the start only.  An expression with an
\* opening parenthesis that is never closed does not compile.
Compile(from) ==
    IF \E i \in 1..Len(from) : from[i] = "("
                                 /\ \A j \in (i + 1)..Len(from) : from[j] # ")"
    THEN [err |-> TRUE, anchored |-> FALSE, lit |-> << >>]
    ELSE IF Len(from) > 0 /\ from[1] = "^"
    THEN [err |-> FALSE, anchored |-> TRUE, lit |-> Tail(from)]
    ELSE [err |-> FALSE, anchored |-> FALSE, lit |-> from]

RECURSIVE SkipName(_)
SkipName(to) ==
    IF Len(to) > 0 /\ to[1] \in NameChars THEN SkipName(Tail(to)) ELSE to

RECURSIVE Expand(_)
\* The replacement template expanded for an expression without groups: $name
\* stands for a group that does not exist and expands to nothing; a $ that no
\* name follows stays.
Expand(to) ==
    IF Len(to) = 0 THEN << >>
    ELSE IF to[1] = "$" /\ Len(to) > 1 /\ to[2] \in NameChars
    THEN Expand(SkipName(Tail(to)))
    ELSE <<to[1]>> \o Expand(Tail(to))

RECURSIVE ReplaceAll(_, _, _)
\* strings.ReplaceAll(s, old, new): the occurrences of old in s, from the
\* left and not overlapping, become new; an empty old matches before every
\* character and at the end.
ReplaceAll(s, old, new) ==
    IF Len(old) = 0
    THEN IF Len(s) = 0 THEN new
         ELSE new \o <<s[1]>> \o ReplaceAll(Tail(s), old, new)
    ELSE IF Len(s) < Len(old) THEN s
    ELSE IF SubSeq(s, 1, Len(old)) = old
    THEN new \o ReplaceAll(SubSeq(s, Len(old) + 1, Len(s)), old, new)
    ELSE <<s[1]>> \o ReplaceAll(Tail(s), old, new)

\* regex.ReplaceAllString(src, repl)
ReplaceAllString(regex, src, repl) ==
    IF regex.anchored
    THEN IF HasPrefix(src, regex.lit)
         THEN Expand(repl) \o SubSeq(src, Len(regex.lit) + 1, Len(src))
         ELSE src
    ELSE ReplaceAll(src, regex.lit, Expand(repl))

\* The rewrite without the compiled expression: From taken literally.
applyRewriteLiteral(path, route) ==
    IF route.RewriteRule.nil THEN path
    ELSE ReplaceAll(path, route.RewriteRule.From, route.RewriteRule.To)

\* Proxy.applyRewrite(path, route); route.regex is what sortRoutes compiled
\* from the rule, nil when it did not compile.
applyRewrite(path, route) ==
    IF route.RewriteRule.nil THEN path
    ELSE LET regex == Compile(route.RewriteRule.From)
         IN  IF ~regex.err
             THEN ReplaceAllString(regex, path, route.RewriteRule.To)
             ELSE ReplaceAll(path, route.RewriteRule.From,
                             route.RewriteRule.To)

RECURSIVE FirstMatch(_, _, _)
\* MatchRoute's loop over sortedRoutes from index i: the first route that
\* matches, 0 for none.
FirstMatch(srt, path, i) ==
    IF i > Len(srt) THEN 0
    ELSE IF matchesRoute(path, srt[i].Pattern) THEN i
    ELSE FirstMatch(srt, path, i + 1)

\* Proxy.MatchRoute(path): the RouteResult, with the pattern of the route.
MatchRoute(srt, path) ==
    LET i == FirstMatch(srt, path, 1)
    IN  IF i # 0
        THEN [path |-> path, Target |-> srt[i].Target, Matched |-> TRUE,
              Pattern |-> srt[i].Pattern,
              RewrittenPath |-> applyRewrite(path, srt[i])]
        ELSE [path |-> path, Target |-> DefaultTarget, Matched |-> FALSE,
              Pattern |-> << >>, RewrittenPath |-> path]

NoMatchYet == [path |-> << >>, Target |-> "", Matched |-> FALSE,
               Pattern |-> << >>, RewrittenPath |-> << >>]

Route(pattern, target, rewrite) ==
    [Pattern |-> pattern, Target |-> target, RewriteRule |-> rewrite]

\* The state after the configuration was loaded: the routes of the document,
\* sorted by the loader's call of sortRoutes.
RouteInit ==
    /\ Routes \in
           {<< >>,
            <<Route(PatApiStar, "localhost:3000", NoRule),
              Route(PatApiV1Star, "localhost:8001", NoRule),
              Route(PatSlash, "localhost:3000", NoRule)>>}
    /\ sortedRoutes \in sortRoutes(Routes)
    /\ matched = NoMatchYet

RouteIdle ==
    /\ Routes = << >>
    /\ sortedRoutes = << >>
    /\ matched = NoMatchYet

\* The routes of TestConfig, as loadProxies leaves them.
TestRule == RewriteRule(FromV1Api, ToSlashGroup)

TestConfig ==
    <<Route(PatApiStar, "localhost:3000", NoRule),
      Route(PatV1Star, "localhost:8001", TestRule),
      Route(PatHealth, DefaultTarget, NoRule)>>

\* The rules a route is added with: the one of TestConfig, one that replaces
\* /v1 wherever it stands, and one whose expression does not compile.
RewriteRules == {TestRule, RewriteRule(V1, V2), RewriteRule(FromUnclosed, V2)}

RewriteInit ==
    /\ Routes \in {<< >>, TestConfig}
    /\ sortedRoutes \in sortRoutes(Routes)
    /\ matched = NoMatchYet

\* Proxy.AddRoute(pattern, target, nil)
AddRoute ==
    \E pattern \in Patterns, target \in Targets :
        /\ Len(Routes) < MaxRoutes
        /\ Routes' = Append(Routes, Route(pattern, target, NoRule))
        /\ sortedRoutes' \in sortRoutes(Routes')
        /\ matched' = NoMatchYet
        /\ UNCHANGED notRouteVars

\* Proxy.AddRoute(pattern, target, rewrite) with a rewrite rule.
AddRewriteRoute ==
    \E pattern \in {PatV1Star, PatV2Star}, rewrite \in RewriteRules :
        /\ Len(Routes) < MaxRoutes
        /\ Routes' = Append(Routes, Route(pattern, "localhost:8001", rewrite))
        /\ sortedRoutes' \in sortRoutes(Routes')
        /\ matched' = NoMatchYet
        /\ UNCHANGED notRouteVars

\* Proxy.RemoveRoute(pattern): the first route with the pattern goes.
RemoveRoute ==
    \E pattern \in Patterns \cup {PatV1Star, PatV2Star, PatHealth} :
        /\ \E i \in 1..Len(Routes) : Routes[i].Pattern = pattern
        /\ LET i == CHOOSE k \in 1..Len(Routes) :
                        /\ Routes[k].Pattern = pattern
                        /\ \A j \in 1..(k - 1) : Routes[j].Pattern # pattern
           IN  Routes' = SubSeq(Routes, 1, i - 1)
                             \o SubSeq(Routes, i + 1, Len(Routes))
        /\ sortedRoutes' \in sortRoutes(Routes')
        /\ matched' = NoMatchYet
        /\ UNCHANGED notRouteVars

\* A request's path is matched against routes with rewrite rules.
MatchRewritten ==
    \E path \in RewritePaths :
        /\ matched' = MatchRoute(sortedRoutes, path)
        /\ UNCHANGED <<Routes, sortedRoutes>>
        /\ UNCHANGED notRouteVars

\* A request's path is matched.
DoMatchRoute ==
    \E path \in Paths :
        /\ matched' = MatchRoute(sortedRoutes, path)
        /\ UNCHANGED <<Routes, sortedRoutes>>
        /\ UNCHANGED notRouteVars

(***************************************************************************)
(* Protocol sniffing.  A byte is a number in 0..255, a buffer a sequence   *)
(* of bytes; the texts below are the ASCII bytes of the Go string literals.*)
(***************************************************************************)
\* "GET ", "POST ", "PUT ", "DELETE ", "HEAD ", "OPTIONS ", "PATCH ",
\* "TRACE ", "CONNECT "
httpMethods ==
    { <<71, 69, 84, 32>>,
      <<80, 79, 83, 84, 32>>,
      <<80, 85, 84, 32>>,
      <<68, 69, 76, 69, 84, 69, 32>>,
      <<72, 69, 65, 68, 32>>,
      <<79, 80, 84, 73, 79, 78, 83, 32>>,
      <<80, 65, 84, 67, 72, 32>>,
      <<84, 82, 65, 67, 69, 32>>,
      <<67, 79, 78, 78, 69, 67, 84, 32>> }

\* "HTTP/1."
TokenHTTP1 == <<72, 84, 84, 80, 47, 49, 46>>

\* "HTTP/2"
TokenHTTP2 == <<72, 84, 84, 80, 47, 50>>

\* "PRI * HTTP/2.0"
PrefacePRI == <<80, 82, 73, 32, 42, 32, 72, 84, 84, 80, 47, 50, 46, 48>>

\* strings.ToUpper on ASCII text.
ToUpper(b) ==
    [i \in 1..Len(b) |-> IF b[i] >= 97 /\ b[i] <= 122 THEN b[i] - 32 ELSE b[i]]

\* strings.Contains(s, sub)
Contains(s, sub) ==
    \E i \in 0..(Len(s) - Len(sub)) : SubSeq(s, i + 1, i + Len(sub)) = sub

\* A TLS test that rejects the largest record length.
SnifferTLSBelowMax(peekedBytes) ==
    IF Len(peekedBytes) < 5 THEN FALSE
    ELSE IF peekedBytes[1] # 22 THEN FALSE
    ELSE IF peekedBytes[2] # 3 THEN FALSE
    ELSE IF peekedBytes[3] > 4 THEN FALSE
    ELSE LET length == (peekedBytes[4] * 256 + peekedBytes[5]) % 65536
         IN  IF length = 0 \/ length >= 16384 THEN FALSE ELSE TRUE

\* Sniffer.TLS(peekedBytes): 0x16, 0x03, a minor version up to 0x04 and a
\* record length (uint16, big-endian) in 1..16384.
SnifferTLS(peekedBytes) ==
    IF Len(peekedBytes) < 5 THEN FALSE
    ELSE IF peekedBytes[1] # 22 THEN FALSE
    ELSE IF peekedBytes[2] # 3 THEN FALSE
    ELSE IF peekedBytes[3] > 4 THEN FALSE
    ELSE LET length == (peekedBytes[4] * 256 + peekedBytes[5]) % 65536
         IN  IF length = 0 \/ length > 16384 THEN FALSE ELSE TRUE

\* Sniff.TLS(peekedBytes): the same tests.
SniffTLS(peekedBytes) ==
    IF Len(peekedBytes) < 5 THEN FALSE
    ELSE IF peekedBytes[1] # 22 THEN FALSE
    ELSE IF peekedBytes[2] # 3 THEN FALSE
    ELSE IF peekedBytes[3] > 4 THEN FALSE
    ELSE LET length == (peekedBytes[4] * 256 + peekedBytes[5]) % 65536
         IN  IF length = 0 \/ length > 16384 THEN FALSE ELSE TRUE

\* if len(peekedBytes) < 14 { return false }
MinHTTPLen == 14

\* Sniffer.HTTP(peekedBytes)
SnifferHTTP(peekedBytes) ==
    IF Len(peekedBytes) < MinHTTPLen THEN FALSE
    ELSE LET dataUpper == ToUpper(peekedBytes)
         IN  IF \E method \in httpMethods : HasPrefix(dataUpper, method)
             THEN Contains(dataUpper, TokenHTTP1)
                      \/ Contains(dataUpper, TokenHTTP2)
             ELSE HasPrefix(peekedBytes, PrefacePRI)

\* Sniff.HTTP(peekedBytes): no least length, and a method without the token
\* falls through to the test of the HTTP/2 preface.
SniffHTTP(peekedBytes) ==
    IF Len(peekedBytes) = 0 THEN FALSE
    ELSE LET dataStr == ToUpper(peekedBytes)
         IN  \/ \E method \in httpMethods :
                    /\ HasPrefix(dataStr, method)
                    /\ \/ Contains(dataStr, TokenHTTP1)
                       \/ Contains(dataStr, TokenHTTP2)
             \/ HasPrefix(peekedBytes, PrefacePRI)

\* sniffer := &Sniffer{peekN: 64}
SnifferPeekN == 64

\* var sniff = Sniff{peekN: 24}
SniffPeekN == 24

\* The window of the extended peek: make([]byte, 512-initialPeekSize).
MaxPeek == 512

\* bufio.NewReader(conn): a buffer of bufio's default size.
BufioSize == 4096

\* initialPeekSize: peekN, and 64 when peekN is 0 or above 512.
initialPeekSize(peekN) == IF peekN = 0 \/ peekN > MaxPeek THEN 64 ELSE peekN

\* Lengths of the paths in the requests the clients send: the token of the
\* first lies past Sniff's peek, of the second past Sniffer's first peek, of
\* the third past the window of 512 bytes.
MidPath == 30

LongPath == 80

FarPath == 520

\* The bytes that follow the record header of the TLS clients.
TLSBody == 70

\* n bytes of lowercase letters.
Pad(n) == [i \in 1..n |-> 97 + (i % 26)]

\* " HTTP/1.1\r\n\r\n"
VersionLine == <<32, 72, 84, 84, 80, 47, 49, 46, 49, 13, 10, 13, 10>>

\* "GET /"
GetSlash == <<71, 69, 84, 32, 47>>

\* "POST /"
PostSlash == <<80, 79, 83, 84, 32, 47>>

HTTPClients ==
    { GetSlash \o VersionLine,
      GetSlash \o Pad(MidPath) \o VersionLine,
      PostSlash \o Pad(LongPath) \o VersionLine,
      GetSlash \o Pad(FarPath) \o VersionLine,
      \* "get / http/1.1\r\n"
      <<103, 101, 116, 32, 47, 32, 104, 116, 116, 112, 47, 49, 46, 49, 13, 10>>,
      \* "PRI * HTTP/2.0\r\n\r\nSM\r\n\r\n"
      <<80, 82, 73, 32, 42, 32, 72, 84, 84, 80, 47, 50, 46, 48, 13, 10, 13, 10, 83, 77, 13, 10, 13, 10>> }

\* Records that start like a TLS handshake, with every field on both sides
\* of what the test accepts.
TLSClients ==
    { <<b0, b1, b2, b3, b4>> \o Pad(TLSBody) :
          b0 \in {22, 23}, b1 \in {2, 3}, b2 \in {4, 5},
          b3 \in {0, 64}, b4 \in {0, 1} }

OtherClients ==
    { << >>,
      \* "SSH-2.0-x\r\n"
      <<83, 83, 72, 45, 50, 46, 48, 45, 120, 13, 10>> }

Wires == HTTPClients \cup TLSClients \cup OtherClients

\* Where the segments of a client may end.
Cuts == {4, 5, 16, 24, 64, 90}

\* The sizes of the buffers the Read calls come with.
ReadSizes == {16, 4096}

Min(a, b) == IF a < b THEN a ELSE b

\* Bytes at the socket and not yet read.
Avail == arrived - pos

\* The next n bytes of the socket.
Upcoming(n) == SubSeq(wire, pos + 1, pos + n)

SniffInit ==
    /\ impl \in {"Sniffer", "Sniff"}
    /\ wire \in Wires
    /\ arrived = 0
    /\ peerDone = FALSE
    /\ pos = 0
    /\ buf = << >>
    /\ bufNil = FALSE
    /\ snpc = "peek"
    /\ peeked = << >>
    /\ more = 0
    /\ proto = ""
    /\ failed = FALSE
    /\ delivered = << >>

SniffIdle ==
    /\ impl = "Sniffer"
    /\ wire = << >>
    /\ arrived = 0
    /\ peerDone = FALSE
    /\ pos = 0
    /\ buf = << >>
    /\ bufNil = FALSE
    /\ snpc = "peek"
    /\ peeked = << >>
    /\ more = 0
    /\ proto = ""
    /\ failed = FALSE
    /\ delivered = << >>

\* A segment of the client reaches the socket.
Arrive ==
    /\ \E c \in Cuts \cup {Len(wire)} :
           /\ c > arrived
           /\ c <= Len(wire)
           /\ arrived' = c
    /\ UNCHANGED <<impl, wire, peerDone, pos, buf, bufNil, snpc, peeked, more,
                   proto, failed, delivered>>
    /\ UNCHANGED notSniffVars

\* The client closes its end once it has sent everything.
ClientClose ==
    /\ arrived = Len(wire)
    /\ ~peerDone
    /\ peerDone' = TRUE
    /\ UNCHANGED <<impl, wire, arrived, pos, buf, bufNil, snpc, peeked, more,
                   proto, failed, delivered>>
    /\ UNCHANGED notSniffVars

\* What io.TeeReader does with the bytes it has read: it writes them to
\* TeeConn.buf.
TeeWrite(b, bytes) == b \o bytes

\* A buffer read that forgets what it did not return.
DrainAndDrop(b, k) == [out |-> SubSeq(b, 1, Min(k, Len(b))), rest |-> << >>]

\* c.buf.Read(p) with len(p) = k on a buffer that is not empty: the first
\* bytes go to p, the others stay.
Drain(b, k) ==
    [out |-> SubSeq(b, 1, Min(k, Len(b))),
     rest |-> SubSeq(b, Min(k, Len(b)) + 1, Len(b))]

\* The tests of Sniffer.Conn on a peek that ended early: TLS, HTTP, else TCP;
\* TCP right away for no byte at all.
SnifferPartial(pk) ==
    IF Len(pk) = 0 THEN "tcp"
    ELSE IF SnifferTLS(pk) THEN "tls"
    ELSE IF SnifferHTTP(pk) THEN "http"
    ELSE "tcp"

\* One Read of io.ReadFull(teeReader, peekedBytes); with the last byte of the
\* peek the tests are made: TLS, HTTP, else on to the extended read.
SnifferReadFull ==
    /\ impl = "Sniffer"
    /\ snpc = "peek"
    /\ Avail > 0
    /\ LET size == initialPeekSize(SnifferPeekN)
           n == Min(Avail, size - Len(peeked))
           pk == peeked \o Upcoming(n)
       IN  /\ pos' = pos + n
           /\ buf' = TeeWrite(buf, Upcoming(n))
           /\ peeked' = pk
           /\ IF Len(pk) < size
              THEN UNCHANGED <<snpc, proto>>
              ELSE IF SnifferTLS(pk)
              THEN snpc' = "done" /\ proto' = "tls"
              ELSE IF SnifferHTTP(pk)
              THEN snpc' = "done" /\ proto' = "http"
              ELSE snpc' = "more" /\ UNCHANGED proto
    /\ UNCHANGED <<impl, wire, arrived, peerDone, bufNil, more, failed,
                   delivered>>
    /\ UNCHANGED notSniffVars

\* io.ReadFull returns an error: the deadline of one second has passed, or
\* the client has closed.  The bytes read so far are tested.
SnifferReadFullErr ==
    /\ impl = "Sniffer"
    /\ snpc = "peek"
    /\ snpc' = "done"
    /\ proto' = SnifferPartial(peeked)
    /\ failed' = TRUE
    /\ UNCHANGED <<impl, wire, arrived, peerDone, pos, buf, bufNil, peeked,
                   more, delivered>>
    /\ UNCHANGED notSniffVars

\* n2, _ := teeReader.Read(morePeek) returns bytes: one Read, of what is at
\* the socket; HTTP is tested on the two peeks together.
SnifferMore ==
    /\ impl = "Sniffer"
    /\ snpc = "more"
    /\ Avail > 0
    /\ LET n2 == Min(Avail, MaxPeek - initialPeekSize(SnifferPeekN))
           combined == peeked \o Upcoming(n2)
       IN  /\ pos' = pos + n2
           /\ buf' = TeeWrite(buf, Upcoming(n2))
           /\ more' = n2
           /\ peeked' = combined
           /\ proto' = IF SnifferHTTP(combined) THEN "http" ELSE "tcp"
    /\ snpc' = "done"
    /\ UNCHANGED <<impl, wire, arrived, peerDone, bufNil, failed, delivered>>
    /\ UNCHANGED notSniffVars

\* The extended read returns no byte (deadline or EOF): TCP.
SnifferMoreErr ==
    /\ impl = "Sniffer"
    /\ snpc = "more"
    /\ snpc' = "done"
    /\ proto' = "tcp"
    /\ failed' = TRUE
    /\ UNCHANGED <<impl, wire, arrived, peerDone, pos, buf, bufNil, peeked,
                   more, delivered>>
    /\ UNCHANGED notSniffVars

\* TeeConn.Read(p) with len(p) = k, after the sniffer has returned.
TeeConnRead ==
    /\ impl = "Sniffer"
    /\ snpc = "done"
    /\ \E k \in ReadSizes :
           IF bufNil
           THEN \* return c.Conn.Read(p)
                /\ Avail > 0
                /\ delivered' = delivered \o Upcoming(Min(k, Avail))
                /\ pos' = pos + Min(k, Avail)
                /\ UNCHANGED <<buf, bufNil>>
           ELSE IF Len(buf) > 0
           THEN \* n, err = c.buf.Read(p) with err = nil
                /\ delivered' = delivered \o Drain(buf, k).out
                /\ buf' = Drain(buf, k).rest
                /\ UNCHANGED <<pos, bufNil>>
           ELSE \* the buffer is empty: c.buf = nil, then c.Conn.Read(p[n:])
                /\ Avail > 0 \/ peerDone
                /\ bufNil' = TRUE
                /\ delivered' = delivered \o Upcoming(Min(k, Avail))
                /\ pos' = pos + Min(k, Avail)
                /\ UNCHANGED buf
    /\ UNCHANGED <<impl, wire, arrived, peerDone, snpc, peeked, more, proto,
                   failed>>
    /\ UNCHANGED notSniffVars

\* A classification that takes what is not TLS for HTTP.
SniffClassifyDefaultHTTP(pk) == IF SniffTLS(pk) THEN "tls" ELSE "http"

\* The tests of Sniff.Conn on the peeked bytes.
SniffClassify(pk) ==
    IF SniffTLS(pk) THEN "tls"
    ELSE IF SniffHTTP(pk) THEN "http"
    ELSE "tcp"

\* peekConn.Peek(s.peekN): one fill of the bufio.Reader, a Read of what is
\* at the socket into the free part of its buffer; with peekN bytes in the
\* buffer Peek returns the first peekN of them and the tests are made.
SniffPeek ==
    /\ impl = "Sniff"
    /\ snpc = "peek"
    /\ Len(buf) < SniffPeekN
    /\ Avail > 0
    /\ LET n == Min(Avail, BufioSize - Len(buf))
           b == buf \o Upcoming(n)
       IN  /\ pos' = pos + n
           /\ buf' = b
           /\ IF Len(b) < SniffPeekN
              THEN UNCHANGED <<snpc, proto, peeked>>
              ELSE /\ snpc' = "done"
                   /\ peeked' = SubSeq(b, 1, SniffPeekN)
                   /\ proto' = SniffClassify(SubSeq(b, 1, SniffPeekN))
    /\ UNCHANGED <<impl, wire, arrived, peerDone, bufNil, more, failed,
                   delivered>>
    /\ UNCHANGED notSniffVars

\* Peek returns an error (deadline or EOF) with the bytes it has: TCP for
\* none, else the tests on them.
SniffPeekErr ==
    /\ impl = "Sniff"
    /\ snpc = "peek"
    /\ snpc' = "done"
    /\ peeked' = buf
    /\ proto' = IF Len(buf) = 0 THEN "tcp" ELSE SniffClassify(buf)
    /\ failed' = TRUE
    /\ UNCHANGED <<impl, wire, arrived, peerDone, pos, buf, bufNil, more,
                   delivered>>
    /\ UNCHANGED notSniffVars

\* PeekableConn.Read(b) with len(b) = k: bufio.Reader.Read returns buffered
\* bytes when it has some; else it reads the socket, straight into b when b
\* is at least as large as its buffer, through its buffer when not.
PeekableConnRead ==
    /\ impl = "Sniff"
    /\ snpc = "done"
    /\ \E k \in ReadSizes :
           IF Len(buf) > 0
           THEN /\ delivered' = delivered \o SubSeq(buf, 1, Min(k, Len(buf)))
                /\ buf' = SubSeq(buf, Min(k, Len(buf)) + 1, Len(buf))
                /\ UNCHANGED pos
           ELSE /\ Avail > 0
                /\ IF k >= BufioSize
                   THEN /\ delivered' = delivered \o Upcoming(Min(k, Avail))
                        /\ pos' = pos + Min(k, Avail)
                        /\ UNCHANGED buf
                   ELSE LET n == Min(BufioSize, Avail)
                        IN  /\ delivered' = delivered \o Upcoming(Min(k, n))
                            /\ buf' = SubSeq(Upcoming(n), Min(k, n) + 1, n)
                            /\ pos' = pos + n
    /\ UNCHANGED <<impl, wire, arrived, peerDone, bufNil, snpc, peeked, more,
                   proto, failed>>
    /\ UNCHANGED notSniffVars

(***************************************************************************)
(* Metered streams.                                                        *)
(***************************************************************************)
\* A call of the underlying stream returns at most MaxChunk bytes.
MaxChunk == 3

\* Calls through the wrapper.
MaxIO == 4

Wrappers == {"MetricsReadWriter", "MetricsReadWriteCloser"}

\* What the underlying stream may return as err.
IOErrors == {"nil", "EOF", "timeout"}

\* A wrapper that counts the bytes of the calls without error only.
CountedOnSuccess(n, err) == IF err = "nil" THEN n ELSE 0

\* if n > 0 { metrics.Add...Bytes(uint64(n)) }: what a call returning
\* (n, err) adds to its counter.
Counted(n, err) == IF n > 0 THEN n ELSE 0

\* atomic.AddUint64(&counter, bytes); the counters are uint64 and the sums
\* reached here, at most MaxIO * MaxChunk, are far from wrapping.
AddUint64(counter, bytes) == counter + bytes

NoIO == [op |-> "none", n |-> 0, err |-> "nil", retn |-> 0, reterr |-> "nil",
         before |-> 0, calls |-> 0]

\* metrics.New() and a wrapper around a stream.
MetricsInit ==
    /\ wrapper \in Wrappers
    /\ IngressBytes = 0
    /\ EgressBytes = 0
    /\ readSum = 0
    /\ writeSum = 0
    /\ io = NoIO

MetricsIdle ==
    /\ wrapper = "MetricsReadWriter"
    /\ IngressBytes = 0
    /\ EgressBytes = 0
    /\ readSum = 0
    /\ writeSum = 0
    /\ io = NoIO

\* Read(p): the underlying Read returns (n, err); n > 0 is added to the
\* ingress counter; (n, err) is returned.
MetricsRead ==
    /\ io.calls < MaxIO
    /\ \E n \in 0..MaxChunk, err \in IOErrors :
           /\ IngressBytes' = AddUint64(IngressBytes, Counted(n, err))
           /\ readSum' = readSum + (IF n > 0 THEN n ELSE 0)
           /\ io' = [op |-> "Read", n |-> n, err |-> err, retn |-> n,
                     reterr |-> err, before |-> IngressBytes,
                     calls |-> io.calls + 1]
    /\ UNCHANGED <<wrapper, EgressBytes, writeSum>>
    /\ UNCHANGED notMetricVars

\* Write(p): the same with the egress counter.
MetricsWrite ==
    /\ io.calls < MaxIO
    /\ \E n \in 0..MaxChunk, err \in IOErrors :
           /\ EgressBytes' = AddUint64(EgressBytes, Counted(n, err))
           /\ writeSum' = writeSum + (IF n > 0 THEN n ELSE 0)
           /\ io' = [op |-> "Write", n |-> n, err |-> err, retn |-> n,
                     reterr |-> err, before |-> EgressBytes,
                     calls |-> io.calls + 1]
    /\ UNCHANGED <<wrapper, IngressBytes, readSum>>
    /\ UNCHANGED notMetricVars

-----------------------------------------------------------------------------
\* The HTTP relay: Proxy.Handler, Proxy.http and Proxy.stream.

\* The requests one client connection carries, at most.
MaxRequests == 3

\* The bytes each peer sends once the connection is streamed, at most.
MaxBytes == 2

\* The hosts a client names; only the first has an entry in the config.
Hosts == {"app.com", "other.com"}

ProxyEntries == {"app.com"}

\* p.Config.GetProxy(host): found or nil.
GetProxy(host) == host \in ProxyEntries

Protos == {"1.0", "1.1"}

\* The values of the Connection header of a request.
ConnectionValues == {"", "close", "keep-alive", "Upgrade"}

\* The values of the Upgrade header of a request.
UpgradeValues == {"", "websocket"}

\* A request as http.ReadRequest returns it.
Requests ==
    [proto : Protos, connection : ConnectionValues, upgrade : UpgradeValues,
     host : Hosts]

NoRequest == [proto |-> "", connection |-> "", upgrade |-> "", host |-> ""]

\* strings.ToLower on the header values above.
ToLower(s) == IF s = "Upgrade" THEN "upgrade" ELSE s

\* strings.EqualFold(a, b)
EqualFold(a, b) == ToLower(a) = ToLower(b)

\* strings.EqualFold(req.Header.Get("Upgrade"), "websocket") &&
\* strings.Contains(strings.ToLower(req.Header.Get("Connection")), "upgrade")
isWebSocket(r) ==
    EqualFold(r.upgrade, "websocket") /\ ToLower(r.connection) = "upgrade"

StatusOK == 200
StatusSwitchingProtocols == 101
StatusTooManyRequests == 429
StatusBadGateway == 502
StatusNotFound == 404

\* The responses a backend puts on the wire.
WireResponses ==
    [status : {StatusOK, StatusSwitchingProtocols}, proto : Protos,
     connection : {"", "close"}]

\* http.ReadResponse: for an HTTP/1.1 response that carries
\* "Connection: close" the transfer reader sets resp.Close and deletes the
\* header from resp.Header; an HTTP/1.0 response keeps it.  wire is the
\* header as the backend sent it.
ReadResponse(w) ==
    [status |-> w.status, proto |-> w.proto,
     connection |-> IF w.proto = "1.1" /\ w.connection = "close" THEN ""
                    ELSE w.connection,
     wire |-> w.connection]

NoResponse ==
    [status |-> 0, proto |-> "", connection |-> "", wire |-> ""]

\* The test at the end of an iteration of Proxy.http: return when the request
\* or the response header says "Connection: close".
ClosesAfter(r, rs) ==
    EqualFold(r.connection, "close") \/ EqualFold(rs.connection, "close")

Peers == {"client", "backend"}

OtherPeer(s) == IF s = "client" THEN "backend" ELSE "client"

\* Nothing is streamed yet.
NoStream ==
    [kind |-> "none", early |-> [s \in Peers |-> 0],
     rbuf |-> [s \in Peers |-> <<>>], wire |-> [s \in Peers |-> <<>>],
     sentBy |-> [s \in Peers |-> <<>>], got |-> [s \in Peers |-> <<>>],
     peerOpen |-> [s \in Peers |-> TRUE], closer |-> [s \in Peers |-> FALSE],
     task |-> [s \in Peers |-> "none"], tret |-> [s \in Peers |-> "nil"],
     rerrch |-> <<>>, wpc |-> "none"]

\* exit is the reason Proxy.http or Proxy.stream returned; clean says that
\* every exchange so far was an ordinary one (no denial, no failure, no
\* upgrade, no "Connection: close" sent by either side).
NoLog ==
    [nreq |-> 0, dials |-> 0, closes |-> 0, entryChecks |-> 0, last |-> "none",
     clean |-> TRUE, fail |-> "none", sni |-> "", deadline |-> FALSE,
     decided |-> "none", exit |-> "none"]

RelayInit ==
    /\ rpc = "Handler"
    /\ rfile = "stream.go"
    /\ entry = [limiter |-> FALSE, metrics |-> FALSE]
    /\ req = NoRequest
    /\ resp = NoResponse
    /\ clientConn = "open"
    /\ backend = "none"
    /\ written = <<>>
    /\ rlog = NoLog
    /\ ws = NoStream

RelayIdle ==
    /\ rpc = "Handler"
    /\ rfile = "stream.go"
    /\ entry = [limiter |-> FALSE, metrics |-> FALSE]
    /\ req = NoRequest
    /\ resp = NoResponse
    /\ clientConn = "open"
    /\ backend = "none"
    /\ written = <<>>
    /\ rlog = NoLog
    /\ ws = NoStream

\* An error reply that is written twice.
writeErrorTwice(w, statusCode) == Append(Append(w, statusCode), statusCode)

\* p.writeError(conn, statusCode, message): one response written to the client.
writeError(w, statusCode) == Append(w, statusCode)

\* Proxy.Handler once TLS(conn) has returned the connection and its SNI: the
\* global limiter, the lookup of the entry, and the choice between Proxy.http
\* and Proxy.stream.
Handler ==
    /\ rpc = "Handler"
    /\ \E globalAllow \in BOOLEAN, sni \in Hosts, terminate \in BOOLEAN,
          entryProto \in {"http", "tcp"}, limiter \in BOOLEAN, metrics \in BOOLEAN,
          deadline \in BOOLEAN :
          /\ IF ~globalAllow \/ ~GetProxy(sni)
             THEN /\ rlog' = [rlog EXCEPT !.sni = sni, !.exit = "Handler"]
                  /\ clientConn' = "closed"
                  /\ rpc' = "done"
                  /\ UNCHANGED entry
             ELSE /\ rlog' = [rlog EXCEPT !.sni = sni, !.deadline = deadline]
                  /\ entry' = [limiter |-> limiter, metrics |-> metrics]
                  /\ rpc' = IF terminate /\ entryProto = "http" THEN "http"
                            ELSE "stream"
                  /\ UNCHANGED clientConn
    /\ UNCHANGED <<rfile, req, resp, backend, written, ws>>
    /\ UNCHANGED notRelayVars

\* Proxy.http before its loop: the limiter of the entry, asked once.
HttpLimiter ==
    /\ rpc = "http"
    /\ \E allowed \in BOOLEAN :
          IF entry.limiter /\ ~allowed
          THEN /\ written' = writeError(written, StatusTooManyRequests)
               /\ clientConn' = "closed"
               /\ rpc' = "done"
               /\ rlog' = [rlog EXCEPT !.entryChecks = @ + 1, !.clean = FALSE,
                                       !.exit = "limiter"]
          ELSE /\ rpc' = "ReadRequest"
               /\ rlog' = [rlog EXCEPT
                              !.entryChecks = IF entry.limiter THEN @ + 1 ELSE @]
               /\ UNCHANGED <<written, clientConn>>
    /\ UNCHANGED <<rfile, entry, req, resp, backend, ws>>
    /\ UNCHANGED notRelayVars

\* What http.ReadRequest returns when it returns no request: io.EOF, a
\* timeout (only while a read deadline is set) or another error.
ReadErrors == {"EOF", "timeout", "error"}

\* req, err := http.ReadRequest(bufrd); conn.SetReadDeadline(time.Time{});
\* an error ends Proxy.http, whose deferred conn.Close() runs.
ReadRequest ==
    /\ rpc = "ReadRequest"
    /\ \/ /\ rlog.nreq < MaxRequests
          /\ \E r \in Requests : req' = r
          /\ rpc' = "RouteLimiter"
          /\ rlog' = [rlog EXCEPT !.nreq = @ + 1, !.last = "request",
                                  !.deadline = FALSE, !.decided = "none"]
          /\ UNCHANGED clientConn
       \/ /\ \E err \in ReadErrors :
                /\ err = "timeout" => rlog.deadline
                /\ rlog' = [rlog EXCEPT !.last = err, !.deadline = FALSE,
                                        !.exit = err]
          /\ clientConn' = "closed"
          /\ rpc' = "done"
          /\ UNCHANGED req
    /\ UNCHANGED <<rfile, entry, resp, backend, written, ws>>
    /\ UNCHANGED notRelayVars

\* A path that goes on without backend.Close().
LeaveBackend(b) == b

\* backend.Close()
CloseBackend(b) == IF b = "open" THEN "closed" ELSE b

\* The connections closed so far, after the backend went from b to c.
Closes(n, b, c) == IF b = "open" /\ c = "closed" THEN n + 1 ELSE n

\* route := proxy.MatchRoute(req.URL.Path) and the limiter of the route.
RouteLimiter ==
    /\ rpc = "RouteLimiter"
    /\ \E deny \in BOOLEAN :
          IF deny
          THEN /\ written' = writeError(written, StatusTooManyRequests)
               /\ clientConn' = "closed"
               /\ rpc' = "done"
               /\ rlog' = [rlog EXCEPT !.clean = FALSE, !.exit = "limiter"]
          ELSE /\ rpc' = "Dial"
               /\ UNCHANGED <<written, clientConn, rlog>>
    /\ UNCHANGED <<rfile, entry, req, resp, backend, ws>>
    /\ UNCHANGED notRelayVars

\* backend, err := net.Dial("tcp", route.Target)
Dial ==
    /\ rpc = "Dial"
    /\ \E ok \in BOOLEAN :
          IF ok
          THEN /\ backend' = "open"
               /\ rpc' = "WriteRequest"
               /\ rlog' = [rlog EXCEPT !.dials = @ + 1]
               /\ UNCHANGED <<written, clientConn>>
          ELSE /\ written' = writeError(written, StatusBadGateway)
               /\ clientConn' = "closed"
               /\ rpc' = "done"
               /\ rlog' = [rlog EXCEPT !.clean = FALSE, !.fail = "dial",
                                       !.exit = "dial"]
               /\ UNCHANGED backend
    /\ UNCHANGED <<rfile, entry, req, resp, ws>>
    /\ UNCHANGED notRelayVars

\* err = req.Write(backend)
WriteRequest ==
    /\ rpc = "WriteRequest"
    /\ \E ok \in BOOLEAN :
          IF ok
          THEN /\ rpc' = "ReadResponse"
               /\ UNCHANGED <<written, clientConn, backend, rlog>>
          ELSE /\ backend' = CloseBackend(backend)
               /\ written' = writeError(written, StatusBadGateway)
               /\ clientConn' = "closed"
               /\ rpc' = "done"
               /\ rlog' = [rlog EXCEPT
                              !.clean = FALSE, !.fail = "write",
                              !.exit = "write",
                              !.closes = Closes(@, backend, backend')]
    /\ UNCHANGED <<rfile, entry, req, resp, ws>>
    /\ UNCHANGED notRelayVars

\* resp, err := http.ReadResponse(backendReader, req).  A backend answers 101
\* only to a request for an upgrade.
ReadBackendResponse ==
    /\ rpc = "ReadResponse"
    /\ \/ /\ \E w \in WireResponses :
                /\ w.status = StatusSwitchingProtocols => isWebSocket(req)
                /\ resp' = ReadResponse(w)
          /\ rpc' = "WriteResponse"
          /\ UNCHANGED <<written, clientConn, backend, rlog>>
       \/ /\ backend' = CloseBackend(backend)
          /\ written' = writeError(written, StatusBadGateway)
          /\ clientConn' = "closed"
          /\ rpc' = "done"
          /\ rlog' = [rlog EXCEPT !.clean = FALSE, !.fail = "read",
                                  !.exit = "read",
                                  !.closes = Closes(@, backend, backend')]
          /\ UNCHANGED resp
    /\ UNCHANGED <<rfile, entry, req, ws>>
    /\ UNCHANGED notRelayVars

\* err := resp.Write(conn), then resp.Body.Close()
WriteResponse ==
    /\ rpc = "WriteResponse"
    /\ \E ok \in BOOLEAN :
          IF ok
          THEN /\ written' = Append(written, resp.status)
               /\ rpc' = "Written"
               /\ UNCHANGED <<clientConn, backend, rlog>>
          ELSE /\ backend' = CloseBackend(backend)
               /\ clientConn' = "closed"
               /\ rpc' = "done"
               /\ rlog' = [rlog EXCEPT
                              !.clean = FALSE, !.exit = "respwrite",
                              !.closes = Closes(@, backend, backend')]
               /\ UNCHANGED written
    /\ UNCHANGED <<rfile, entry, req, resp, ws>>
    /\ UNCHANGED notRelayVars

\* The end of an iteration that is no upgrade: backend.Close(), then return
\* when a "Connection: close" was seen, or loop.
KeepAlive ==
    /\ rpc = "Written"
    /\ ~(isWebSocket(req) /\ resp.status = StatusSwitchingProtocols)
    /\ backend' = CloseBackend(backend)
    /\ IF ClosesAfter(req, resp)
       THEN /\ clientConn' = "closed"
            /\ rpc' = "done"
            /\ rlog' = [rlog EXCEPT !.decided = "close", !.clean = FALSE,
                                    !.exit = "close",
                                    !.closes = Closes(@, backend, backend')]
       ELSE /\ rpc' = "ReadRequest"
            /\ rlog' = [rlog EXCEPT
                           !.decided = "next",
                           !.clean = @ /\ resp.wire # "close",
                           !.closes = Closes(@, backend, backend')]
            /\ UNCHANGED clientConn
    /\ UNCHANGED <<rfile, entry, req, resp, written, ws>>
    /\ UNCHANGED notRelayVars

\* The bytes 1..k, in the order the peer sent them.
Early(k) == [i \in 1..k |-> i]

\* The state at the call of Stream(rw, backendConn).  kc and kb bytes that the
\* client and the backend sent after their HTTP message are already in bufrd
\* and backendReader.  A copy task gets a closer goroutine when its source is
\* a net.Conn, which the MetricsReadWriter around the client is not.
StartStream(kind, kc, kb, metrics) ==
    [kind |-> kind,
     early |-> [s \in Peers |-> IF s = "client" THEN kc ELSE kb],
     rbuf |-> [s \in Peers |-> IF s = "client" THEN Early(kc) ELSE Early(kb)],
     wire |-> [s \in Peers |-> <<>>],
     sentBy |-> [s \in Peers |-> IF s = "client" THEN Early(kc) ELSE Early(kb)],
     got |-> [s \in Peers |-> <<>>],
     peerOpen |-> [s \in Peers |-> TRUE],
     closer |-> [s \in Peers |-> IF s = "client" THEN ~metrics ELSE TRUE],
     task |-> [s \in Peers |-> "run"],
     tret |-> [s \in Peers |-> "nil"],
     rerrch |-> <<>>, wpc |-> "wait"]

\* The upgrade: the 101 has been written to the client and the two buffered
\* connections go to Stream.
HandOff ==
    /\ rpc = "Written"
    /\ isWebSocket(req) /\ resp.status = StatusSwitchingProtocols
    /\ \E kc \in 0..MaxBytes, kb \in 0..MaxBytes :
          ws' = StartStream("ws", kc, kb, entry.metrics)
    /\ rpc' = "Stream"
    /\ rlog' = [rlog EXCEPT !.clean = FALSE]
    /\ UNCHANGED <<rfile, entry, req, resp, clientConn, backend, written>>
    /\ UNCHANGED notRelayVars

\* Proxy.stream: the limiter of the entry, then the dial and Stream(rw, backend).
StreamDial ==
    /\ rpc = "stream"
    /\ \E allowed \in BOOLEAN, ok \in BOOLEAN :
          IF (entry.limiter /\ ~allowed) \/ ~ok
          THEN /\ clientConn' = "closed"
               /\ rpc' = "done"
               /\ rlog' = [rlog EXCEPT
                              !.exit = IF entry.limiter /\ ~allowed
                                       THEN "limiter" ELSE "dial"]
               /\ UNCHANGED <<backend, ws>>
          ELSE /\ backend' = "open"
               /\ ws' = StartStream("stream", 0, 0, entry.metrics)
               /\ rpc' = "Stream"
               /\ rlog' = [rlog EXCEPT !.dials = @ + 1]
               /\ UNCHANGED clientConn
    /\ UNCHANGED <<rfile, entry, req, resp, written>>
    /\ UNCHANGED notRelayVars

\* The request and the response of an upgrade, as Proxy.http holds them when
\* it calls Stream.
UpgradeRequest ==
    [proto |-> "1.1", connection |-> "Upgrade", upgrade |-> "websocket",
     host |-> "app.com"]

UpgradeResponse ==
    ReadResponse([status |-> StatusSwitchingProtocols, proto |-> "1.1",
                  connection |-> ""])

\* The states in which Stream is called: by Proxy.http after an upgrade, or by
\* Proxy.stream after its dial.
RelayStreamInit ==
    /\ rpc = "Stream"
    /\ rfile \in Files
    /\ \E metrics \in BOOLEAN :
          /\ entry = [limiter |-> FALSE, metrics |-> metrics]
          /\ \/ /\ \E kc \in 0..MaxBytes, kb \in 0..MaxBytes :
                      ws = StartStream("ws", kc, kb, metrics)
                /\ req = UpgradeRequest
                /\ resp = UpgradeResponse
                /\ written = <<StatusSwitchingProtocols>>
                /\ rlog = [NoLog EXCEPT !.nreq = 1, !.dials = 1,
                                        !.last = "request", !.clean = FALSE,
                                        !.sni = "app.com"]
             \/ /\ ws = StartStream("stream", 0, 0, metrics)
                /\ req = NoRequest
                /\ resp = NoResponse
                /\ written = <<>>
                /\ rlog = [NoLog EXCEPT !.dials = 1, !.sni = "app.com"]
    /\ clientConn = "open"
    /\ backend = "open"

\* A read that goes to the connection and leaves the buffered bytes behind.
ConnRead(b, w, n) ==
    [chunk |-> SubSeq(w, 1, n), rbuf |-> b, wire |-> SubSeq(w, n + 1, Len(w))]

\* BuffConn.Read, which is bufio.Reader.Read with a 32 KiB slice: the buffered
\* bytes when there are any, and else one read of n bytes from the connection.
BuffConnRead(b, w, n) ==
    IF Len(b) > 0
    THEN [chunk |-> b, rbuf |-> <<>>, wire |-> w]
    ELSE [chunk |-> SubSeq(w, 1, n), rbuf |-> <<>>,
          wire |-> SubSeq(w, n + 1, Len(w))]

\* A peer sends its next byte.
RelayPeerSend(s) ==
    /\ rpc = "Stream"
    /\ ws.peerOpen[s]
    /\ Len(ws.sentBy[s]) < MaxBytes
    /\ LET b == Len(ws.sentBy[s]) + 1
       IN ws' = [ws EXCEPT !.wire[s] = Append(@, b), !.sentBy[s] = Append(@, b)]
    /\ UNCHANGED <<rpc, rfile, entry, req, resp, clientConn, backend, written,
                   rlog>>
    /\ UNCHANGED notRelayVars

\* A peer closes its connection.
RelayPeerClose(s) ==
    /\ rpc = "Stream"
    /\ ws.peerOpen[s]
    /\ ws' = [ws EXCEPT !.peerOpen[s] = FALSE]
    /\ UNCHANGED <<rpc, rfile, entry, req, resp, clientConn, backend, written,
                   rlog>>
    /\ UNCHANGED notRelayVars

\* One turn of the loop of CopyWithContext(ctx, dst, src) with src the side s:
\* a read, and the write of what was read.  The read blocks while the peer is
\* connected and has sent nothing; it returns io.EOF once the peer has closed
\* and everything was read.  The write fails when the other peer has closed.
RelayCopy(s) ==
    /\ rpc = "Stream"
    /\ ws.task[s] = "run"
    /\ LET t == OtherPeer(s)
       IN IF Len(ws.rbuf[s]) > 0 \/ Len(ws.wire[s]) > 0
          THEN \E n \in IF Len(ws.rbuf[s]) > 0 THEN {Len(ws.wire[s])}
                         ELSE 1..Len(ws.wire[s]) :
                  LET r == BuffConnRead(ws.rbuf[s], ws.wire[s], n)
                  IN /\ Len(r.chunk) > 0
                     /\ IF ws.peerOpen[t]
                        THEN ws' = [ws EXCEPT !.rbuf[s] = r.rbuf,
                                              !.wire[s] = r.wire,
                                              !.got[t] = @ \o r.chunk]
                        ELSE ws' = [ws EXCEPT !.rbuf[s] = r.rbuf,
                                              !.wire[s] = r.wire,
                                              !.task[s] = "send",
                                              !.tret[s] = "error"]
          ELSE /\ ~ws.peerOpen[s]
               /\ ws' = [ws EXCEPT !.task[s] = "send",
                                   !.tret[s] = ReadErrReturn(rfile, "EOF")]
    /\ UNCHANGED <<rpc, rfile, entry, req, resp, clientConn, backend, written,
                   rlog>>
    /\ UNCHANGED notRelayVars

\* The end of a copy task: errch <- result (connln.go sends only an error),
\* which blocks while errch is full.
RelayCopyEnd(s) ==
    /\ rpc = "Stream"
    /\ ws.task[s] = "send"
    /\ IF SendsResult(rfile, ws.tret[s])
       THEN /\ Len(ws.rerrch) < ErrchCap
            /\ ws' = [ws EXCEPT !.rerrch = Append(@, ws.tret[s]),
                                !.task[s] = "done"]
       ELSE ws' = [ws EXCEPT !.task[s] = "done"]
    /\ UNCHANGED <<rpc, rfile, entry, req, resp, clientConn, backend, written,
                   rlog>>
    /\ UNCHANGED notRelayVars

\* wg.Wait(); closeConnection(src); closeConnection(dst).  The client side is
\* an io.Closer unless it is wrapped in a MetricsReadWriter.
RelayStreamWait ==
    /\ rpc = "Stream"
    /\ ws.wpc = "wait"
    /\ \A s \in Peers : ws.task[s] = "done"
    /\ ws' = [ws EXCEPT !.wpc = "recv"]
    /\ clientConn' = IF entry.metrics THEN clientConn ELSE "closed"
    /\ backend' = CloseBackend(backend)
    /\ rlog' = [rlog EXCEPT !.closes = Closes(@, backend, backend')]
    /\ UNCHANGED <<rpc, rfile, entry, req, resp, written>>
    /\ UNCHANGED notRelayVars

\* return <-errch: Stream returns, and so does its caller, whose deferred
\* conn.Close() runs (and the deferred backend.Close() of Proxy.stream).
RelayStreamReturn ==
    /\ rpc = "Stream"
    /\ ws.wpc = "recv"
    /\ Len(ws.rerrch) > 0
    /\ ws' = [ws EXCEPT !.wpc = "returned", !.rerrch = Tail(@)]
    /\ clientConn' = "closed"
    /\ backend' = CloseBackend(backend)
    /\ rpc' = "done"
    /\ rlog' = [rlog EXCEPT !.exit = "Stream",
                            !.closes = Closes(@, backend, backend')]
    /\ UNCHANGED <<rfile, entry, req, resp, written>>
    /\ UNCHANGED notRelayVars

(***************************************************************************)
(* matchesRoute on its own: one call with any path and any pattern.        *)
(***************************************************************************)
\* The strings tried are all strings of at most MaxStr characters of
\* MatchAlphabet, and the paths and patterns of the route table.
MaxStr == 3

MatchAlphabet == {"/", "a", "*"}

Strings(n) == UNION {[1..k -> MatchAlphabet] : k \in 0..n}

PathApiary == <<"/", "a", "p", "i", "a", "r", "y">>

MatchPaths == Strings(MaxStr) \cup Paths \cup {PathApiary}

MatchPatterns == Strings(MaxStr) \cup Patterns

MatchInit ==
    /\ mPath \in MatchPaths
    /\ mPattern \in MatchPatterns
    /\ mDone = FALSE
    /\ mResult = FALSE

MatchIdle ==
    /\ mPath = << >>
    /\ mPattern = << >>
    /\ mDone = FALSE
    /\ mResult = FALSE

\* matchesRoute(path, pattern) is called and returns.
CallMatchesRoute ==
    /\ ~mDone
    /\ mDone' = TRUE
    /\ mResult' = matchesRoute(mPath, mPattern)
    /\ UNCHANGED <<mPath, mPattern>>
    /\ UNCHANGED notMatchVars

(***************************************************************************)
(* Loading the configuration.  Durations are counted in microseconds; the  *)
(* cooldown values of the documents are multiples of 1000.                 *)
(***************************************************************************)
\* A proxy entry of a document has at most MaxCfgRoutes routes.
MaxCfgRoutes == 2

CfgDomains == {"app.com", "api.com"}

\* rate_limit absent: the Limiter pointer of the entry is nil.
NoLimiterConfig == [nil |-> TRUE, Rate |-> 0, Burst |-> 0, Cooldown |-> 0]

LimiterConfig(rate, burst, cooldown) ==
    [nil |-> FALSE, Rate |-> rate, Burst |-> burst, Cooldown |-> cooldown]

\* The rate_limit blocks of the documents: the one of TestConfig, one with a
\* cooldown of 1000, and one without a cooldown.
LimiterConfigs ==
    {NoLimiterConfig, LimiterConfig(10, 10, 60000), LimiterConfig(10, 10, 1000),
     LimiterConfig(10, 10, 0)}

RouteConfig(pattern, target, rewrite, lc) ==
    [Pattern |-> pattern, Target |-> target, RewriteRule |-> rewrite,
     Limiter |-> lc]

\* The routes of the documents: a plain one, one with a limiter, one with the
\* rewrite rule of TestConfig, one without a target, one whose rewrite
\* expression does not compile.
RouteConfigs ==
    {RouteConfig(PatApiStar, "localhost:3000", NoRule, NoLimiterConfig),
     RouteConfig(PatHealth, DefaultTarget, NoRule,
                 LimiterConfig(10, 10, 60000)),
     RouteConfig(PatV1Star, "localhost:8001", TestRule, NoLimiterConfig),
     RouteConfig(PatApi, "", NoRule, NoLimiterConfig),
     RouteConfig(PatV2Star, "localhost:8001", RewriteRule(FromUnclosed, V2),
                 NoLimiterConfig)}

RouteConfigLists == UNION {[1..k -> RouteConfigs] : k \in 0..MaxCfgRoutes}

ProxyConfig(target, routes, lc) ==
    [absent |-> FALSE, Target |-> target, Routes |-> routes, Limiter |-> lc]

\* The document has no entry for the domain.
NoProxyConfig ==
    [absent |-> TRUE, Target |-> "", Routes |-> << >>,
     Limiter |-> NoLimiterConfig]

\* time.Duration(n): n nanoseconds, in microseconds.
Duration(n) == n \div 1000

NoLimiter == [nil |-> TRUE, rate |-> 0, burst |-> 0, cooldown |-> 0]

\* limiter.New(WithBurst(lc.Burst), WithRPS(lc.Rate),
\*             WithCooldown(time.Duration(lc.Cooldown)))
limiterNew(lc) ==
    [nil |-> FALSE,
     rate |-> IF lc.Rate = 0 THEN DefaultRPS ELSE lc.Rate,
     burst |-> IF lc.Burst = 0 THEN DefaultBurst ELSE lc.Burst,
     cooldown |-> IF Duration(lc.Cooldown) = 0
                  THEN DefaultCooldownSeconds * 1000000
                  ELSE Duration(lc.Cooldown)]

limiterOf(lc) == IF lc.nil THEN NoLimiter ELSE limiterNew(lc)

NoProxy == [nil |-> TRUE, Target |-> "", Routes |-> << >>,
            sortedRoutes |-> << >>, Limiter |-> NoLimiter]

\* The Routes loadProxies builds from the routes of a proxy entry.
routesOf(proxy) ==
    [i \in 1..Len(proxy.Routes) |->
        [Pattern |-> proxy.Routes[i].Pattern,
         Target |-> proxy.Routes[i].Target,
         RewriteRule |-> proxy.Routes[i].RewriteRule,
         Limiter |-> limiterOf(proxy.Routes[i].Limiter)]]

\* The routes are registered without a look at them.
acceptRoutes(routes, i) == "nil"

\* The test loadProxies and AddProxyWithRoutes make on each route: "nil", or
\* the error of the first route that fails it.
RECURSIVE validateRoutes(_, _)
validateRoutes(routes, i) ==
    IF i > Len(routes) THEN "nil"
    ELSE IF routes[i].Target = "" THEN "empty target for route"
    ELSE IF /\ ~routes[i].RewriteRule.nil
            /\ routes[i].RewriteRule.From # << >>
            /\ Compile(routes[i].RewriteRule.From).err
    THEN "invalid regex"
    ELSE validateRoutes(routes, i + 1)

\* The Proxy registered for a valid entry, sorted by sortRoutes.
proxyOf(proxy) ==
    LET rs == routesOf(proxy)
    IN  [nil |-> FALSE, Target |-> proxy.Target, Routes |-> rs,
         sortedRoutes |-> CHOOSE srt \in sortRoutes(rs) : TRUE,
         Limiter |-> limiterOf(proxy.Limiter)]

\* Config.loadProxies, with the domains of the document coming in the order
\* the map iteration gives them: the error returned and the Proxies left.
RECURSIVE loadProxies(_, _, _)
loadProxies(cf, order, reg) ==
    IF order = << >> THEN [err |-> "nil", domain |-> "", Proxies |-> reg]
    ELSE LET domain == Head(order)
             proxy == cf[domain]
         IN  IF proxy.Target = ""
             THEN [err |-> "empty target for domain", domain |-> domain,
                   Proxies |-> reg]
             ELSE IF validateRoutes(routesOf(proxy), 1) # "nil"
             THEN [err |-> validateRoutes(routesOf(proxy), 1),
                   domain |-> domain, Proxies |-> reg]
             ELSE loadProxies(cf, Tail(order),
                              [reg EXCEPT ![domain] = proxyOf(proxy)])

\* The domains of the document.
Present(cf) == {d \in CfgDomains : ~cf[d].absent}

\* The orders a map iteration over ds may take.
IterationOrders(ds) ==
    {o \in UNION {[1..k -> ds] : k \in {Cardinality(ds)}} :
        \A i, j \in 1..Len(o) : i # j => o[i] # o[j]}

NoCfgOp == [op |-> "none", domain |-> "", err |-> "nil", before |-> NoProxy,
            arg |-> NoProxyConfig]

\* A fresh Config and a parsed document: any entry for app.com, and for
\* api.com a valid entry, one without a target, or none.
LoadInit ==
    /\ configFile \in
           {cf \in [CfgDomains ->
                       {NoProxyConfig} \cup
                       {ProxyConfig(t, rs, lc) :
                           t \in {"", DefaultTarget},
                           rs \in RouteConfigLists,
                           lc \in LimiterConfigs}] :
               cf["api.com"] \in
                   {NoProxyConfig,
                    ProxyConfig(DefaultTarget, << >>, NoLimiterConfig),
                    ProxyConfig("", << >>, NoLimiterConfig)}}
    /\ Proxies = [d \in CfgDomains |-> NoProxy]
    /\ cfgOp = NoCfgOp

LoadIdle ==
    /\ configFile = [d \in CfgDomains |-> NoProxyConfig]
    /\ Proxies = [d \in CfgDomains |-> NoProxy]
    /\ cfgOp = NoCfgOp

\* Config.LoadBytes on the fresh Config, after yaml.Unmarshal.
LoadBytes ==
    /\ cfgOp.op = "none"
    /\ \E order \in IterationOrders(Present(configFile)) :
           LET r == loadProxies(configFile, order, Proxies)
           IN  /\ Proxies' = r.Proxies
               /\ cfgOp' = [op |-> "Load", domain |-> r.domain, err |-> r.err,
                            before |-> NoProxy, arg |-> NoProxyConfig]
    /\ UNCHANGED configFile
    /\ UNCHANGED notLoadVars

\* Config.AddProxyWithRoutes(domain, target, routes) on the loaded Config.
AddProxyWithRoutes ==
    /\ cfgOp.op = "Load"
    /\ \E domain \in CfgDomains, target \in {"", "localhost:3000"},
          routes \in {rs \in RouteConfigLists : Len(rs) <= 1} :
           LET arg == ProxyConfig(target, routes, NoLimiterConfig)
               err == IF target = "" THEN "target cannot be empty"
                      ELSE validateRoutes(routesOf(arg), 1)
           IN  /\ Proxies' = IF err = "nil"
                             THEN [Proxies EXCEPT ![domain] = proxyOf(arg)]
                             ELSE Proxies
               /\ cfgOp' = [op |-> "AddProxyWithRoutes", domain |-> domain,
                            err |-> err, before |-> Proxies[domain],
                            arg |-> arg]
    /\ UNCHANGED configFile
    /\ UNCHANGED notLoadVars

(***************************************************************************)
(* The accept loop: for { select { case <-ctx.Done(): return ctx.Err()     *)
(* default: conn, err := ln.Accept() ... } }.                              *)
(***************************************************************************)
\* At most MaxClients client connections arrive.
MaxClients == 3

\* Accept fails at most MaxAcceptErrs times with an error that is not
\* net.ErrClosed.
MaxAcceptErrs == 2

AcceptInit ==
    /\ apc = "select"
    /\ rootDone = FALSE
    /\ lnState = "open"
    /\ backlog = 0
    /\ narrived = 0
    /\ handlers = 0
    /\ acceptErrs = 0
    /\ aret = "none"
    /\ hended = 0
    /\ handlerErrs = 0

AcceptIdle ==
    /\ apc = "returned"
    /\ rootDone = FALSE
    /\ lnState = "closed"
    /\ backlog = 0
    /\ narrived = 0
    /\ handlers = 0
    /\ acceptErrs = 0
    /\ aret = "none"
    /\ hended = 0
    /\ handlerErrs = 0

\* The select at the top of the loop: ctx.Done() is ready and startAction
\* returns ctx.Err(), or the default case calls ln.Accept().
LoopSelect ==
    /\ apc = "select"
    /\ IF rootDone
       THEN apc' = "returned" /\ aret' = "ctx.Err"
       ELSE apc' = "accept" /\ aret' = aret
    /\ UNCHANGED <<rootDone, lnState, backlog, narrived, handlers, acceptErrs>>
    /\ UNCHANGED <<hended, handlerErrs>>
    /\ UNCHANGED notAcceptVars

\* ln.Accept() returns a connection; go proxy.Handler(conn), and round again.
AcceptConn ==
    /\ apc = "accept"
    /\ lnState = "open"
    /\ backlog > 0
    /\ backlog' = backlog - 1
    /\ handlers' = handlers + 1
    /\ apc' = "select"
    /\ UNCHANGED <<rootDone, lnState, narrived, acceptErrs, aret>>
    /\ UNCHANGED <<hended, handlerErrs>>
    /\ UNCHANGED notAcceptVars

\* ln.Accept() returns net.ErrClosed: startAction returns nil.
AcceptClosed ==
    /\ apc = "accept"
    /\ lnState = "closed"
    /\ apc' = "returned"
    /\ aret' = "nil"
    /\ UNCHANGED <<rootDone, lnState, backlog, narrived, handlers, acceptErrs>>
    /\ UNCHANGED <<hended, handlerErrs>>
    /\ UNCHANGED notAcceptVars

\* A loop that gives up on any error of Accept.
AcceptErrorReturns ==
    /\ apc = "accept"
    /\ lnState = "open"
    /\ acceptErrs < MaxAcceptErrs
    /\ acceptErrs' = acceptErrs + 1
    /\ apc' = "returned"
    /\ aret' = "err"
    /\ UNCHANGED <<rootDone, lnState, backlog, narrived, handlers>>
    /\ UNCHANGED <<hended, handlerErrs>>
    /\ UNCHANGED notAcceptVars

\* ln.Accept() returns another error: continue.
AcceptError ==
    /\ apc = "accept"
    /\ lnState = "open"
    /\ acceptErrs < MaxAcceptErrs
    /\ acceptErrs' = acceptErrs + 1
    /\ apc' = "select"
    /\ UNCHANGED <<rootDone, lnState, backlog, narrived, handlers, aret>>
    /\ UNCHANGED <<hended, handlerErrs>>
    /\ UNCHANGED notAcceptVars

\* A client connects.
ClientArrives ==
    /\ lnState = "open"
    /\ narrived < MaxClients
    /\ narrived' = narrived + 1
    /\ backlog' = backlog + 1
    /\ UNCHANGED <<apc, rootDone, lnState, handlers, acceptErrs, aret>>
    /\ UNCHANGED <<hended, handlerErrs>>
    /\ UNCHANGED notAcceptVars

\* The root context is cancelled.
CancelRoot ==
    /\ ~rootDone
    /\ rootDone' = TRUE
    /\ UNCHANGED <<apc, lnState, backlog, narrived, handlers, acceptErrs, aret>>
    /\ UNCHANGED <<hended, handlerErrs>>
    /\ UNCHANGED notAcceptVars

\* The listener is closed; the connections not yet accepted are dropped.
CloseListener ==
    /\ lnState = "open"
    /\ lnState' = "closed"
    /\ backlog' = 0
    /\ UNCHANGED <<apc, rootDone, narrived, handlers, acceptErrs, aret>>
    /\ UNCHANGED <<hended, handlerErrs>>
    /\ UNCHANGED notAcceptVars

\* A proxy.Handler goroutine returns, with nil or with an error; it was
\* started with `go`, so what it returns goes nowhere.
HandlerReturns ==
    /\ hended < handlers
    /\ hended' = hended + 1
    /\ \E err \in BOOLEAN :
           handlerErrs' = IF err THEN handlerErrs + 1 ELSE handlerErrs
    /\ UNCHANGED <<apc, rootDone, lnState, backlog, narrived, handlers,
                   acceptErrs, aret>>
    /\ UNCHANGED notAcceptVars

AcceptProgram ==
    LoopSelect \/ AcceptConn \/ AcceptClosed \/ AcceptError \/ HandlerReturns

AcceptEnvironment == ClientArrives \/ CancelRoot \/ CloseListener

(***************************************************************************)
(* StreamWithContext.  The copy tasks, their closing goroutines and the    *)
(* remote ends are those of the Streamer; ctxDone is localCtx.Done().      *)
(***************************************************************************)
StreamCtxInit ==
    /\ wpc = "select"
    /\ parentDone = FALSE
    /\ doneClosed = FALSE
    /\ atCancel = FALSE

StreamCtxIdle ==
    /\ wpc = "returned"
    /\ parentDone = FALSE
    /\ doneClosed = FALSE
    /\ atCancel = FALSE

\* A copy task sits in src.Read on an open connection without data.
BlockedInRead(d) ==
    /\ cpc[d] = "read"
    /\ isConn[d]
    /\ ~connClosed[d]
    /\ inbuf[d] = 0
    /\ peer[d] = "open"

\* The caller cancels ctx; localCtx, derived from it, is done with it.
CancelParent ==
    /\ ~parentDone
    /\ wpc # "returned"
    /\ parentDone' = TRUE
    /\ ctxDone' = TRUE
    /\ atCancel' = \A d \in Sides : BlockedInRead(d)
    /\ UNCHANGED <<wpc, doneClosed>>
    /\ UNCHANGED <<file, isConn, connClosed, peer, inbuf, sent, cpc, cret,
                   closer, errch, spc, result, wfailed, eofSeen>>
    /\ UNCHANGED notStreamCtxVars

\* go func() { wg.Wait(); close(done) }()
WaitGroupDone ==
    /\ ~doneClosed
    /\ \A d \in Sides : cpc[d] = "done"
    /\ doneClosed' = TRUE
    /\ UNCHANGED <<wpc, parentDone, atCancel>>
    /\ UNCHANGED streamVars
    /\ UNCHANGED notStreamCtxVars

\* select, case <-done: on to closeConnection(src); closeConnection(dst).
SelectDone ==
    /\ wpc = "select"
    /\ doneClosed
    /\ wpc' = "recv"
    /\ connClosed' = closeConnection(closeConnection(connClosed, "src"), "dst")
    /\ UNCHANGED <<parentDone, doneClosed, atCancel>>
    /\ UNCHANGED <<file, isConn, peer, inbuf, sent, cpc, cret, closer, errch,
                   spc, result, ctxDone, wfailed, eofSeen>>
    /\ UNCHANGED notStreamCtxVars

\* select, case <-ctx.Done(): on to the send of ctx.Err().
SelectCtxDone ==
    /\ wpc = "select"
    /\ parentDone
    /\ wpc' = "sendCtxErr"
    /\ UNCHANGED <<parentDone, doneClosed, atCancel>>
    /\ UNCHANGED streamVars
    /\ UNCHANGED notStreamCtxVars

\* errch <- ctx.Err(), which blocks while errch is full, then cancel().
SendCtxErr ==
    /\ wpc = "sendCtxErr"
    /\ Len(errch) < ErrchCap
    /\ errch' = Append(errch, "ctxErr")
    /\ ctxDone' = TRUE
    /\ wpc' = "waitDone"
    /\ UNCHANGED <<parentDone, doneClosed, atCancel>>
    /\ UNCHANGED <<file, isConn, connClosed, peer, inbuf, sent, cpc, cret,
                   closer, spc, result, wfailed, eofSeen>>
    /\ UNCHANGED notStreamCtxVars

\* <-done, then closeConnection(src); closeConnection(dst).
WaitDone ==
    /\ wpc = "waitDone"
    /\ doneClosed
    /\ wpc' = "recv"
    /\ connClosed' = closeConnection(closeConnection(connClosed, "src"), "dst")
    /\ UNCHANGED <<parentDone, doneClosed, atCancel>>
    /\ UNCHANGED <<file, isConn, peer, inbuf, sent, cpc, cret, closer, errch,
                   spc, result, ctxDone, wfailed, eofSeen>>
    /\ UNCHANGED notStreamCtxVars

\* return <-errch, then the deferred cancel().
StreamCtxReturn ==
    /\ wpc = "recv"
    /\ Len(errch) > 0
    /\ result' = Head(errch)
    /\ errch' = Tail(errch)
    /\ ctxDone' = TRUE
    /\ wpc' = "returned"
    /\ UNCHANGED <<parentDone, doneClosed, atCancel>>
    /\ UNCHANGED <<file, isConn, connClosed, peer, inbuf, sent, cpc, cret,
                   closer, spc, wfailed, eofSeen>>
    /\ UNCHANGED notStreamCtxVars

\* The steps of StreamWithContext and its goroutines.
StreamCtxProgram ==
    \/ \E d \in Sides : CopyStart(d)
    \/ \E d \in Sides : CopyCheck(d)
    \/ \E d \in Sides : CopyRead(d)
    \/ \E d \in Sides : CopyWrite(d)
    \/ \E d \in Sides : CopyFinish(d)
    \/ \E d \in Sides : CloserFire(d)
    \/ WaitGroupDone
    \/ SelectDone
    \/ SelectCtxDone
    \/ SendCtxErr
    \/ WaitDone
    \/ StreamCtxReturn

(***************************************************************************)
(* Limiter.allow(ip) called by several goroutines for one IP at one        *)
(* instant: no token is added to a bucket between the calls.               *)
(***************************************************************************)
Goroutines == {"g1", "g2", "g3"}

\* Each goroutine makes at most MaxCallsEach calls.
MaxCallsEach == 2

NoBucket == [made |-> FALSE, tokens |-> 0, cooldown |-> FALSE]

RaceInit ==
    /\ cburst \in {1, 2}
    /\ cmapEntry = "none"
    /\ cbuckets = [g \in Goroutines |-> NoBucket]
    /\ gpc = [g \in Goroutines |-> "idle"]
    /\ gclient = [g \in Goroutines |-> "none"]
    /\ gcalls = [g \in Goroutines |-> 0]
    /\ nallowed = 0

RaceIdle ==
    /\ cburst = 1
    /\ cmapEntry = "none"
    /\ cbuckets = [g \in Goroutines |-> NoBucket]
    /\ gpc = [g \in Goroutines |-> "idle"]
    /\ gclient = [g \in Goroutines |-> "none"]
    /\ gcalls = [g \in Goroutines |-> 0]
    /\ nallowed = 0

\* c, exists := l.clients.Get(ip)
ClientsGet(g) ==
    /\ gpc[g] = "idle"
    /\ gcalls[g] < MaxCallsEach
    /\ gclient' = [gclient EXCEPT ![g] = cmapEntry]
    /\ gpc' = [gpc EXCEPT ![g] = IF cmapEntry = "none" THEN "create"
                                 ELSE "cooldown"]
    /\ UNCHANGED <<cburst, cmapEntry, cbuckets, gcalls, nallowed>>
    /\ UNCHANGED notRaceVars

\* if !exists { c = &client{limiter: rate.NewLimiter(l.rate, l.burst), ...};
\* l.clients.Set(ip, c) }: the new client takes the place of whatever the map
\* holds by now.
ClientsSet(g) ==
    /\ gpc[g] = "create"
    /\ cbuckets' = [cbuckets EXCEPT ![g] = [made |-> TRUE, tokens |-> cburst,
                                            cooldown |-> FALSE]]
    /\ gclient' = [gclient EXCEPT ![g] = g]
    /\ cmapEntry' = g
    /\ gpc' = [gpc EXCEPT ![g] = "cooldown"]
    /\ UNCHANGED <<cburst, gcalls, nallowed>>
    /\ UNCHANGED notRaceVars

\* if now.Before(time.Unix(0, atomic.LoadInt64(&c.cooldown))) { return false }
CooldownTest(g) ==
    /\ gpc[g] = "cooldown"
    /\ IF cbuckets[gclient[g]].cooldown
       THEN /\ gpc' = [gpc EXCEPT ![g] = "idle"]
            /\ gcalls' = [gcalls EXCEPT ![g] = @ + 1]
       ELSE /\ gpc' = [gpc EXCEPT ![g] = "limiter"]
            /\ UNCHANGED gcalls
    /\ UNCHANGED <<cburst, cmapEntry, cbuckets, gclient, nallowed>>
    /\ UNCHANGED notRaceVars

\* if !c.limiter.Allow() { store the cooldown; return false }; store lastSeen;
\* return true.  rate.Limiter.Allow takes the limiter's mutex.
LimiterAllow(g) ==
    /\ gpc[g] = "limiter"
    /\ IF cbuckets[gclient[g]].tokens > 0
       THEN /\ cbuckets' = [cbuckets EXCEPT ![gclient[g]].tokens = @ - 1]
            /\ nallowed' = nallowed + 1
       ELSE /\ cbuckets' = [cbuckets EXCEPT ![gclient[g]].cooldown = TRUE]
            /\ UNCHANGED nallowed
    /\ gpc' = [gpc EXCEPT ![g] = "idle"]
    /\ gcalls' = [gcalls EXCEPT ![g] = @ + 1]
    /\ UNCHANGED <<cburst, cmapEntry, gclient>>
    /\ UNCHANGED notRaceVars

(***************************************************************************)
(* The dispatcher: Proxy.Handler (unnamed/part_005) sniffs the connection  *)
(* and hands it to p.http, p.tls or p.tcp.                                 *)
(***************************************************************************)
\* The protocols a client may offer and the server select in the handshake.
ALPNs == {"", "h2", "http/1.1", "acme-tls/1"}

\* The server names of the ClientHello; "" for none.
ServerNames == Hosts \cup {""}

DispatchInit ==
    /\ dpc = "sniff"
    /\ hsOk = "none"
    /\ hsALPN = ""
    /\ hsSNI = ""
    /\ dbranch = ""
    /\ dclosed = FALSE
    /\ ddialed = FALSE
    /\ dret = "none"

DispatchIdle ==
    /\ dpc = "returned"
    /\ hsOk = "none"
    /\ hsALPN = ""
    /\ hsSNI = ""
    /\ dbranch = ""
    /\ dclosed = FALSE
    /\ ddialed = FALSE
    /\ dret = "none"

\* handleTLS's answer: ProtoHTTPS after a handshake that negotiated http/1.1
\* or h2, ProtoTLS after a failed handshake and for any other protocol.
actualProtocol(ok, negotiated) ==
    IF ~ok THEN "tls"
    ELSE IF negotiated = "http/1.1" \/ negotiated = "h2" THEN "https"
    ELSE "tls"

\* A handleTLS that asks for a finished handshake only.
actualProtocolAnyALPN(ok, negotiated) == IF ~ok THEN "tls" ELSE "https"

\* case ProtoTCP and default: return p.tcp(peekableConn), which closes the
\* connection and returns nil.
HandlerTCP ==
    /\ dpc = "sniff"
    /\ snpc = "done"
    /\ proto \notin {"tls", "http"}
    /\ dbranch' = "tcp"
    /\ dclosed' = TRUE
    /\ dret' = "nil"
    /\ dpc' = "returned"
    /\ UNCHANGED <<hsOk, hsALPN, hsSNI, ddialed>>
    /\ UNCHANGED notDispVars

\* case ProtoHTTP: return p.http(peekableConn)
HandlerHTTP ==
    /\ dpc = "sniff"
    /\ snpc = "done"
    /\ proto = "http"
    /\ dbranch' = "http"
    /\ dpc' = "http"
    /\ UNCHANGED <<hsOk, hsALPN, hsSNI, dclosed, ddialed, dret>>
    /\ UNCHANGED notDispVars

\* case ProtoTLS: handleTLS runs the handshake; Handler goes on with p.http
\* for ProtoHTTPS and with p.tls for anything else.  A handshake may fail
\* before the ClientHello is read (no server name) or after it (crypto/tls
\* has stored the server name and keeps it in the ConnectionState).
HandlerTLS ==
    /\ dpc = "sniff"
    /\ snpc = "done"
    /\ proto = "tls"
    /\ \E ok \in BOOLEAN, negotiated \in ALPNs, name \in ServerNames :
           /\ hsOk' = IF ok THEN "ok" ELSE "failed"
           /\ hsALPN' = negotiated
           /\ hsSNI' = name
           /\ IF actualProtocol(ok, negotiated) = "https"
              THEN dbranch' = "http" /\ dpc' = "http"
              ELSE dbranch' = "tls" /\ dpc' = "tls"
    /\ UNCHANGED <<dclosed, ddialed, dret>>
    /\ UNCHANGED notDispVars

\* p.http(conn): defer conn.Close(); the requests are read and relayed, each
\* to a backend dialed for it; a read error, an unknown host or a denial of
\* the limiter end it before any dial.
ProxyHTTP ==
    /\ dpc = "http"
    /\ \E dialed \in BOOLEAN, err \in {"nil", "err"} :
           /\ ddialed' = dialed
           /\ dret' = err
    /\ dclosed' = TRUE
    /\ dpc' = "returned"
    /\ UNCHANGED <<hsOk, hsALPN, hsSNI, dbranch>>
    /\ UNCHANGED notDispVars

\* p.tls(conn): defer conn.Close(); the proxy of the server name, its
\* limiter, net.Dial("tcp", proxy.Target), then Stream.
ProxyTLS ==
    /\ dpc = "tls"
    /\ \E limited \in BOOLEAN, dialErr \in BOOLEAN, streamErr \in BOOLEAN :
           IF ~GetProxy(hsSNI) \/ limited
           THEN /\ dret' = "nil"
                /\ UNCHANGED ddialed
           ELSE IF dialErr
           THEN /\ dret' = "err"
                /\ UNCHANGED ddialed
           ELSE /\ ddialed' = TRUE
                /\ dret' = IF streamErr THEN "err" ELSE "nil"
    /\ dclosed' = TRUE
    /\ dpc' = "returned"
    /\ UNCHANGED <<hsOk, hsALPN, hsSNI, dbranch>>
    /\ UNCHANGED notDispVars

(***************************************************************************)
(* Metrics.GetIngressBytesDelta and GetEgressBytesDelta called by several  *)
(* goroutines while bytes are counted.  The counters are unsigned and wrap;*)
(* their width is scaled down from 64 to CounterWidth bits.                *)
(***************************************************************************)
Callers == {"q1", "q2"}

CounterWidth == 8

Modulus == 2 ^ CounterWidth

\* The Add calls, and what one of them may add.
MaxAdds == 3

AddSizes == {1, 2}

\* Each caller asks for the delta at most MaxDeltaCalls times.
MaxDeltaCalls == 2

\* current - last on unsigned integers.
SubUint(current, last) == (current - last + Modulus) % Modulus

DeltaInit ==
    /\ dfield \in {"IngressBytes", "EgressBytes"}
    /\ dcounter = 0
    /\ dlastSnap = 0
    /\ nadded = 0
    /\ qpc = [q \in Callers |-> "idle"]
    /\ qcur = [q \in Callers |-> 0]
    /\ qlst = [q \in Callers |-> 0]
    /\ qcalls = [q \in Callers |-> 0]
    /\ deltaSum = 0
    /\ deltaLast = 0

DeltaIdle ==
    /\ dfield = "IngressBytes"
    /\ dcounter = 0
    /\ dlastSnap = 0
    /\ nadded = 0
    /\ qpc = [q \in Callers |-> "idle"]
    /\ qcur = [q \in Callers |-> 0]
    /\ qlst = [q \in Callers |-> 0]
    /\ qcalls = [q \in Callers |-> 0]
    /\ deltaSum = 0
    /\ deltaLast = 0

\* AddIngressBytes(bytes) / AddEgressBytes(bytes): atomic.AddUint64.
AddBytes ==
    /\ nadded < MaxAdds
    /\ \E bytes \in AddSizes : dcounter' = (dcounter + bytes) % Modulus
    /\ nadded' = nadded + 1
    /\ UNCHANGED <<dfield, dlastSnap, qpc, qcur, qlst, qcalls, deltaSum,
                   deltaLast>>
    /\ UNCHANGED notDeltaVars

\* current := atomic.LoadUint64(&m.IngressBytes)
LoadCurrent(q) ==
    /\ qpc[q] = "idle"
    /\ qcalls[q] < MaxDeltaCalls
    /\ qcur' = [qcur EXCEPT ![q] = dcounter]
    /\ qpc' = [qpc EXCEPT ![q] = "current"]
    /\ UNCHANGED <<dfield, dcounter, dlastSnap, nadded, qlst, qcalls, deltaSum,
                   deltaLast>>
    /\ UNCHANGED notDeltaVars

\* last := atomic.LoadUint64(&m.lastIngressBytes)
LoadLast(q) ==
    /\ qpc[q] = "current"
    /\ qlst' = [qlst EXCEPT ![q] = dlastSnap]
    /\ qpc' = [qpc EXCEPT ![q] = "last"]
    /\ UNCHANGED <<dfield, dcounter, dlastSnap, nadded, qcur, qcalls, deltaSum,
                   deltaLast>>
    /\ UNCHANGED notDeltaVars

\* delta := current - last; atomic.StoreUint64(&m.lastIngressBytes, current);
\* return delta
StoreLast(q) ==
    /\ qpc[q] = "last"
    /\ dlastSnap' = qcur[q]
    /\ deltaLast' = SubUint(qcur[q], qlst[q])
    /\ deltaSum' = deltaSum + SubUint(qcur[q], qlst[q])
    /\ qcalls' = [qcalls EXCEPT ![q] = @ + 1]
    /\ qpc' = [qpc EXCEPT ![q] = "idle"]
    /\ UNCHANGED <<dfield, dcounter, nadded, qcur, qlst>>
    /\ UNCHANGED notDeltaVars

(***************************************************************************)
(* Trie.Set(d1, v) beside Trie.Delete(d2).  Each call of a method of a     *)
(* concurrent map is one step; nothing else orders the two goroutines.     *)
(***************************************************************************)
\* Cells of the heap: the root, the nodes of the stored domain, and the nodes
\* one Set may add.
MaxNodes == 6

NodeIds == 1..MaxNodes

\* The labels of the domains in use.
TrieLabels == {<<"c">>, <<"a">>, <<"x">>, <<"o">>, Star}

NoChildren == [l \in TrieLabels |-> 0]

\* The domain stored at the start and deleted: a.c.
DelDomain == <<"a", ".", "c">>

\* The domains set meanwhile: x.a.c, below the deleted one, and o.c, beside it.
SetDomains == { <<"x", ".", "a", ".", "c">>, <<"o", ".", "c">> }

\* The trie after NewTrie() and Set(DelDomain, "v1"): the root, c and a.c.
StoredHeap ==
    [n \in NodeIds |->
        IF n = 1 THEN [children |-> [NoChildren EXCEPT ![<<"c">>] = 2],
                       value |-> "nil"]
        ELSE IF n = 2 THEN [children |-> [NoChildren EXCEPT ![<<"a">>] = 3],
                            value |-> "nil"]
        ELSE IF n = 3 THEN [children |-> NoChildren, value |-> "v1"]
        ELSE [children |-> NoChildren, value |-> "nil"]]

\* children.Count()
Count(node) == Cardinality({l \in TrieLabels : node.children[l] # 0})

RECURSIVE HeapGet(_, _, _, _)
\* Get's loop on the heap from label i down to 1: the exact child, else the
\* "*" child, else nil.
HeapGet(h, n, parts, i) ==
    IF i = 0 THEN h[n].value
    ELSE IF h[n].children[parts[i]] # 0
    THEN HeapGet(h, h[n].children[parts[i]], parts, i - 1)
    ELSE IF h[n].children[Star] # 0
    THEN HeapGet(h, h[n].children[Star], parts, i - 1)
    ELSE "nil"

\* Trie.Get(domain) on the heap, from the root.
TrieGetHeap(h, domain) ==
    HeapGet(h, 1, Split(domain, Dot), Len(Split(domain, Dot)))

SetParts == Split(setDom, Dot)

DelParts == Split(DelDomain, Dot)

TrieRaceInit ==
    /\ heap = StoredHeap
    /\ heapNext = 4
    /\ setDom \in SetDomains
    /\ setPc = "absent"
    /\ setNode = 1
    /\ setIdx = Len(Split(setDom, Dot))
    /\ delPc = "walk"
    /\ delPath = <<1>>
    /\ delIdx = Len(DelParts)

TrieRaceIdle ==
    /\ heap = StoredHeap
    /\ heapNext = 4
    /\ setDom = DelDomain
    /\ setPc = "done"
    /\ setNode = 1
    /\ setIdx = 0
    /\ delPc = "done"
    /\ delPath = <<1>>
    /\ delIdx = 0

\* node.children.SetIfAbsent(part, newNode)
SetIfAbsent ==
    /\ setPc = "absent"
    /\ IF heap[setNode].children[SetParts[setIdx]] = 0
       THEN /\ heap' = [heap EXCEPT
                           ![setNode].children[SetParts[setIdx]] = heapNext]
            /\ heapNext' = heapNext + 1
       ELSE UNCHANGED <<heap, heapNext>>
    /\ setPc' = "get"
    /\ UNCHANGED <<setDom, setNode, setIdx, delPc, delPath, delIdx>>
    /\ UNCHANGED notTsdVars

\* node, _ = node.children.Get(part); the next round, or the end of the loop.
\* When the key has been removed meanwhile node is nil, and the next use of
\* it is a nil dereference.
SetGet ==
    /\ setPc = "get"
    /\ LET child == heap[setNode].children[SetParts[setIdx]]
       IN  IF child = 0
           THEN /\ setPc' = "panic"
                /\ UNCHANGED <<setNode, setIdx>>
           ELSE /\ setNode' = child
                /\ setIdx' = setIdx - 1
                /\ setPc' = IF setIdx = 1 THEN "value" ELSE "absent"
    /\ UNCHANGED <<heap, heapNext, setDom, delPc, delPath, delIdx>>
    /\ UNCHANGED notTsdVars

\* node.value = &value
SetValue ==
    /\ setPc = "value"
    /\ heap' = [heap EXCEPT ![setNode].value = "v2"]
    /\ setPc' = "done"
    /\ UNCHANGED <<heapNext, setDom, setNode, setIdx, delPc, delPath, delIdx>>
    /\ UNCHANGED notTsdVars

\* Delete's walk: nextNode, ok := node.children.Get(part); return false when
\* the child is missing.
DeleteWalk ==
    /\ delPc = "walk"
    /\ LET node == delPath[Len(delPath)]
           nextNode == heap[node].children[DelParts[delIdx]]
       IN  IF nextNode = 0
           THEN /\ delPc' = "done"
                /\ UNCHANGED <<delPath, delIdx>>
           ELSE /\ delPath' = Append(delPath, nextNode)
                /\ delIdx' = delIdx - 1
                /\ delPc' = IF delIdx = 1 THEN "value" ELSE "walk"
    /\ UNCHANGED <<heap, heapNext, setDom, setPc, setNode, setIdx>>
    /\ UNCHANGED notTsdVars

\* if node.value == nil { return false }; node.value = nil
DeleteClear ==
    /\ delPc = "value"
    /\ LET node == delPath[Len(delPath)]
       IN  IF heap[node].value = "nil"
           THEN /\ delPc' = "done"
                /\ UNCHANGED <<heap, delIdx>>
           ELSE /\ heap' = [heap EXCEPT ![node].value = "nil"]
                /\ delIdx' = Len(delPath)
                /\ delPc' = "prune"
    /\ UNCHANGED <<heapNext, setDom, setPc, setNode, setIdx, delPath>>
    /\ UNCHANGED notTsdVars

\* The test of the collapse: currentNode.value == nil &&
\* currentNode.children.Count() == 0, for path[i] with i > 0.
DeleteTest ==
    /\ delPc = "prune"
    /\ IF delIdx = 1
       THEN delPc' = "done"
       ELSE LET currentNode == heap[delPath[delIdx]]
            IN  IF currentNode.value = "nil" /\ Count(currentNode) = 0
                THEN delPc' = "remove"
                ELSE delPc' = "done"
    /\ UNCHANGED <<heap, heapNext, setDom, setPc, setNode, setIdx, delPath,
                   delIdx>>
    /\ UNCHANGED notTsdVars

\* parentNode.children.Remove(key)
DeleteRemove ==
    /\ delPc = "remove"
    /\ LET parentNode == delPath[delIdx - 1]
           key == DelParts[Len(DelParts) - (delIdx - 1) + 1]
       IN  heap' = [heap EXCEPT ![parentNode].children[key] = 0]
    /\ delIdx' = delIdx - 1
    /\ delPc' = "prune"
    /\ UNCHANGED <<heapNext, setDom, setPc, setNode, setIdx, delPath>>
    /\ UNCHANGED notTsdVars

(***************************************************************************)
(* The specifications, one per component.                                  *)
(***************************************************************************)
StreamNext == StreamProgram \/ StreamPeers

InitStream ==
    StreamInit /\ LimiterIdle /\ TrieIdle /\ RouteIdle /\ SniffIdle
    /\ MetricsIdle /\ RelayIdle /\ MatchIdle /\ LoadIdle /\ AcceptIdle
    /\ StreamCtxIdle /\ RaceIdle /\ DispatchIdle /\ DeltaIdle /\ TrieRaceIdle

SpecStream == InitStream /\ [][StreamNext]_vars

\* The goroutines of the program are scheduled fairly, and the remote ends do
\* not stay idle for ever: each ends up closing or resetting its connection,
\* which is the most favourable environment for Stream to return.
FairSpecStream ==
    SpecStream /\ WF_vars(StreamProgram) /\ WF_vars(StreamPeers)

LimiterNext == LimiterProgram

InitLimiter ==
    StreamIdle /\ LimiterInit /\ TrieIdle /\ RouteIdle /\ SniffIdle
    /\ MetricsIdle /\ RelayIdle /\ MatchIdle /\ LoadIdle /\ AcceptIdle
    /\ StreamCtxIdle /\ RaceIdle /\ DispatchIdle /\ DeltaIdle /\ TrieRaceIdle

SpecLimiter == InitLimiter /\ [][LimiterNext]_vars

\* The limiter with a caller of Cleanup.
LimiterCleanupNext == LimiterProgram \/ Cleanup

SpecLimiterCleanup == InitLimiter /\ [][LimiterCleanupNext]_vars

TrieNext ==
    TrieSet \/ TrieGet \/ TrieDelete \/ TrieDeleteValue \/ TrieKeys

InitTrie ==
    StreamIdle /\ LimiterIdle /\ TrieInit /\ RouteIdle /\ SniffIdle
    /\ MetricsIdle /\ RelayIdle /\ MatchIdle /\ LoadIdle /\ AcceptIdle
    /\ StreamCtxIdle /\ RaceIdle /\ DispatchIdle /\ DeltaIdle /\ TrieRaceIdle

SpecTrie == InitTrie /\ [][TrieNext]_vars

\* The trie used with Set, Get and Delete only.
TrieSetDeleteNext == TrieSet \/ TrieGet \/ TrieDelete

SpecTrieSetDelete == InitTrie /\ [][TrieSetDeleteNext]_vars

RouteNext == AddRoute \/ RemoveRoute \/ DoMatchRoute

InitRoutes ==
    StreamIdle /\ LimiterIdle /\ TrieIdle /\ RouteInit /\ SniffIdle
    /\ MetricsIdle /\ RelayIdle /\ MatchIdle /\ LoadIdle /\ AcceptIdle
    /\ StreamCtxIdle /\ RaceIdle /\ DispatchIdle /\ DeltaIdle /\ TrieRaceIdle

SpecRoutes == InitRoutes /\ [][RouteNext]_vars

SniffNext ==
    \/ Arrive
    \/ ClientClose
    \/ SnifferReadFull
    \/ SnifferReadFullErr
    \/ SnifferMore
    \/ SnifferMoreErr
    \/ TeeConnRead
    \/ SniffPeek
    \/ SniffPeekErr
    \/ PeekableConnRead

InitSniff ==
    StreamIdle /\ LimiterIdle /\ TrieIdle /\ RouteIdle /\ SniffInit
    /\ MetricsIdle /\ RelayIdle /\ MatchIdle /\ LoadIdle /\ AcceptIdle
    /\ StreamCtxIdle /\ RaceIdle /\ DispatchIdle /\ DeltaIdle /\ TrieRaceIdle

SpecSniff == InitSniff /\ [][SniffNext]_vars

MetricsNext == MetricsRead \/ MetricsWrite

InitMetrics ==
    StreamIdle /\ LimiterIdle /\ TrieIdle /\ RouteIdle /\ SniffIdle
    /\ MetricsInit /\ RelayIdle /\ MatchIdle /\ LoadIdle /\ AcceptIdle
    /\ StreamCtxIdle /\ RaceIdle /\ DispatchIdle /\ DeltaIdle /\ TrieRaceIdle

SpecMetrics == InitMetrics /\ [][MetricsNext]_vars

\* The HTTP relay up to the call of Stream.
RelayNext ==
    \/ Handler
    \/ HttpLimiter
    \/ ReadRequest
    \/ RouteLimiter
    \/ Dial
    \/ WriteRequest
    \/ ReadBackendResponse
    \/ WriteResponse
    \/ KeepAlive
    \/ HandOff
    \/ StreamDial

InitRelay ==
    StreamIdle /\ LimiterIdle /\ TrieIdle /\ RouteIdle /\ SniffIdle
    /\ MetricsIdle /\ RelayInit /\ MatchIdle /\ LoadIdle /\ AcceptIdle
    /\ StreamCtxIdle /\ RaceIdle /\ DispatchIdle /\ DeltaIdle /\ TrieRaceIdle

SpecRelay == InitRelay /\ [][RelayNext]_vars

\* The relay from the call of Stream on.
RelayStreamProgram ==
    \/ \E s \in Peers : RelayCopy(s)
    \/ \E s \in Peers : RelayCopyEnd(s)
    \/ RelayStreamWait
    \/ RelayStreamReturn

RelayStreamPeers ==
    \/ \E s \in Peers : RelayPeerSend(s)
    \/ \E s \in Peers : RelayPeerClose(s)

RelayStreamNext == RelayStreamProgram \/ RelayStreamPeers

InitRelayStream ==
    StreamIdle /\ LimiterIdle /\ TrieIdle /\ RouteIdle /\ SniffIdle
    /\ MetricsIdle /\ RelayStreamInit /\ MatchIdle /\ LoadIdle /\ AcceptIdle
    /\ StreamCtxIdle /\ RaceIdle /\ DispatchIdle /\ DeltaIdle
    /\ TrieRaceIdle

SpecRelayStream == InitRelayStream /\ [][RelayStreamNext]_vars

\* The goroutines of Stream are scheduled: a copy task that can take a turn
\* takes it.
FairSpecRelayStream ==
    SpecRelayStream /\ \A s \in Peers : WF_vars(RelayCopy(s))


MatchNext == CallMatchesRoute

InitMatch ==
    StreamIdle /\ LimiterIdle /\ TrieIdle /\ RouteIdle /\ SniffIdle
    /\ MetricsIdle /\ RelayIdle /\ MatchInit /\ LoadIdle /\ AcceptIdle
    /\ StreamCtxIdle /\ RaceIdle /\ DispatchIdle /\ DeltaIdle /\ TrieRaceIdle

SpecMatch == InitMatch /\ [][MatchNext]_vars


RewriteNext == AddRewriteRoute \/ RemoveRoute \/ MatchRewritten

InitRewrite ==
    StreamIdle /\ LimiterIdle /\ TrieIdle /\ RewriteInit /\ SniffIdle
    /\ MetricsIdle /\ RelayIdle /\ MatchIdle /\ LoadIdle /\ AcceptIdle
    /\ StreamCtxIdle /\ RaceIdle /\ DispatchIdle /\ DeltaIdle /\ TrieRaceIdle

SpecRewrite == InitRewrite /\ [][RewriteNext]_vars


LoadNext == LoadBytes \/ AddProxyWithRoutes

InitLoad ==
    StreamIdle /\ LimiterIdle /\ TrieIdle /\ RouteIdle /\ SniffIdle
    /\ MetricsIdle /\ RelayIdle /\ MatchIdle /\ LoadInit /\ AcceptIdle
    /\ StreamCtxIdle /\ RaceIdle /\ DispatchIdle /\ DeltaIdle /\ TrieRaceIdle

SpecLoad == InitLoad /\ [][LoadNext]_vars


AcceptNext == AcceptProgram \/ AcceptEnvironment

InitAccept ==
    StreamIdle /\ LimiterIdle /\ TrieIdle /\ RouteIdle /\ SniffIdle
    /\ MetricsIdle /\ RelayIdle /\ MatchIdle /\ LoadIdle /\ AcceptInit
    /\ StreamCtxIdle /\ RaceIdle /\ DispatchIdle /\ DeltaIdle /\ TrieRaceIdle

SpecAccept == InitAccept /\ [][AcceptNext]_vars

\* The goroutine of startAction is scheduled whenever it can take a step, and
\* Accept returns when a connection waits or the listener is closed.  Clients
\* are not bound to connect, nor Accept to fail.
FairSpecAccept ==
    /\ SpecAccept
    /\ WF_vars(LoopSelect)
    /\ WF_vars(AcceptConn)
    /\ WF_vars(AcceptClosed)


\* The remote ends send and close; the caller may cancel ctx at any time.
StreamCtxPeers ==
    \/ \E s \in Sides : PeerSend(s)
    \/ \E s \in Sides : PeerClose(s)

StreamCtxNext == StreamCtxProgram \/ StreamCtxPeers \/ CancelParent

InitStreamCtx ==
    StreamInit /\ LimiterIdle /\ TrieIdle /\ RouteIdle /\ SniffIdle
    /\ MetricsIdle /\ RelayIdle /\ MatchIdle /\ LoadIdle /\ AcceptIdle
    /\ StreamCtxInit /\ RaceIdle /\ DispatchIdle /\ DeltaIdle /\ TrieRaceIdle

SpecStreamCtx == InitStreamCtx /\ [][StreamCtxNext]_vars

\* The goroutines of the program are scheduled fairly: a step of the program
\* that stays possible is taken.  The remote ends and the caller are free.
FairSpecStreamCtx == SpecStreamCtx /\ WF_vars(StreamCtxProgram)


RaceNext ==
    \/ \E g \in Goroutines : ClientsGet(g)
    \/ \E g \in Goroutines : ClientsSet(g)
    \/ \E g \in Goroutines : CooldownTest(g)
    \/ \E g \in Goroutines : LimiterAllow(g)

InitRace ==
    StreamIdle /\ LimiterIdle /\ TrieIdle /\ RouteIdle /\ SniffIdle
    /\ MetricsIdle /\ RelayIdle /\ MatchIdle /\ LoadIdle /\ AcceptIdle
    /\ StreamCtxIdle /\ RaceInit /\ DispatchIdle /\ DeltaIdle /\ TrieRaceIdle

SpecRace == InitRace /\ [][RaceNext]_vars


\* The dispatcher with the sniffer it calls.
DispatchNext ==
    \/ Arrive
    \/ ClientClose
    \/ SnifferReadFull
    \/ SnifferReadFullErr
    \/ SnifferMore
    \/ SnifferMoreErr
    \/ SniffPeek
    \/ SniffPeekErr
    \/ HandlerTCP
    \/ HandlerHTTP
    \/ HandlerTLS
    \/ ProxyHTTP
    \/ ProxyTLS

InitDispatch ==
    StreamIdle /\ LimiterIdle /\ TrieIdle /\ RouteIdle /\ SniffInit
    /\ MetricsIdle /\ RelayIdle /\ MatchIdle /\ LoadIdle /\ AcceptIdle
    /\ StreamCtxIdle /\ RaceIdle /\ DispatchInit /\ DeltaIdle /\ TrieRaceIdle

SpecDispatch == InitDispatch /\ [][DispatchNext]_vars


DeltaNext ==
    \/ AddBytes
    \/ \E q \in Callers : LoadCurrent(q)
    \/ \E q \in Callers : LoadLast(q)
    \/ \E q \in Callers : StoreLast(q)

InitDelta ==
    StreamIdle /\ LimiterIdle /\ TrieIdle /\ RouteIdle /\ SniffIdle
    /\ MetricsIdle /\ RelayIdle /\ MatchIdle /\ LoadIdle /\ AcceptIdle
    /\ StreamCtxIdle /\ RaceIdle /\ DispatchIdle /\ DeltaInit /\ TrieRaceIdle

SpecDelta == InitDelta /\ [][DeltaNext]_vars


TrieRaceNext ==
    \/ SetIfAbsent
    \/ SetGet
    \/ SetValue
    \/ DeleteWalk
    \/ DeleteClear
    \/ DeleteTest
    \/ DeleteRemove

InitTrieRace ==
    StreamIdle /\ LimiterIdle /\ TrieIdle /\ RouteIdle /\ SniffIdle
    /\ MetricsIdle /\ RelayIdle /\ MatchIdle /\ LoadIdle /\ AcceptIdle
    /\ StreamCtxIdle /\ RaceIdle /\ DispatchIdle /\ DeltaIdle /\ TrieRaceInit

SpecTrieRace == InitTrieRace /\ [][TrieRaceNext]_vars

-----------------------------------------------------------------------------
\* Claims about the Streamer.

BothConns == \A s \in Sides : isConn[s]

BothClosed == \A s \in Sides : connClosed[s]

\* The copy task of direction d has ended on end-of-stream, the other side is
\* open and idle, and Stream has not returned although no step of the program
\* is enabled: it waits for the remote end of the other side.
WaitsForOtherDirection(d) ==
    /\ BothConns
    /\ eofSeen[d]
    /\ cpc[d] = "done"
    /\ peer[Other(d)] = "open"
    /\ inbuf[Other(d)] = 0
    /\ ~connClosed[Other(d)]
    /\ spc # "returned"
    /\ ~ENABLED StreamProgram

\* C1: when one side reaches end-of-stream while the other side is open and
\* idle, Stream does not wait for the other direction: it is never left waiting
\* for the idle side with both connections still open.
C1_EOFEndsStream == \A d \in Sides : ~WaitsForOtherDirection(d)

\* C2: when a write fails in either copy direction, Stream returns that write
\* error, and both connections have been closed by the time it returns.
C2_WriteErrorReturned ==
    \A d \in Sides :
        [](BothConns /\ wfailed[d]
             => <>(spc = "returned" /\ result = "writeErr" /\ BothClosed))

-----------------------------------------------------------------------------
\* Claims about the rate limiter.

\* Less than one token's worth of time has passed between the creation of the
\* bucket and the last call: no token was refilled.
NoRefill == (call.t - call.created) * lim.rate < TicksPerSecond

\* C3: for an IP not seen before and a limiter with burst B, when no token is
\* refilled in between, the first B calls of allow(ip) are allowed and call
\* B + 1 is denied.
C3_BurstBound ==
    (call.res # "none" /\ NoRefill)
        => /\ call.n <= lim.burst => call.res = "allow"
           /\ call.n = lim.burst + 1 => call.res = "deny"

C3_Witness ==
    /\ NoRefill
    /\ call.n = lim.burst + 1
    /\ call.res = "deny"
    /\ call.why = "empty"

\* C4: once a call from an IP is denied at time t on an empty bucket,
\* cooldown_until is t + cooldown, and every call from that IP at a time in
\* [t, t + cooldown) is denied, whatever was refilled meanwhile.
C4_Cooldown ==
    /\ \A ip \in IPs :
           emptyDeny[ip] # 0
               => clients[ip].cooldown = emptyDeny[ip] + lim.cooldown
    /\ (call.denied # 0 /\ call.t < call.denied + lim.cooldown)
           => call.res = "deny"

\* A call denied inside the window although a whole token had been refilled.
C4_Witness ==
    /\ call.denied # 0
    /\ call.t > call.denied
    /\ call.t < call.denied + lim.cooldown
    /\ call.avail >= TicksPerSecond
    /\ call.res = "deny"

\* C5: after an IP was denied at time t, a call made at or after t + cooldown
\* with at least one token refilled is allowed: the calls denied during the
\* cooldown do not move cooldown_until.
C5_Recovery ==
    (/\ call.denied # 0
     /\ call.t >= call.denied + lim.cooldown
     /\ call.avail >= TicksPerSecond)
        => call.res = "allow"

\* The first call at cooldown_until, after a call denied during the cooldown.
C5_Witness ==
    /\ call.denied # 0
    /\ call.t = call.denied + lim.cooldown
    /\ cdHits[call.ip] > 0
    /\ call.res = "allow"

-----------------------------------------------------------------------------
\* Claims about the domain trie.

AppCom == <<"a", ".", "c">>

StarCom == <<"*", ".", "c">>

OtherCom == <<"z", ".", "c">>

GetParts == Split(got.domain, Dot)

\* The node Get was at before its k-th step.
WalkedFrom(k) == IF k = 1 THEN Root ELSE got.walk[k - 1]

\* C6: Get walks the labels from the last to the first and at each level goes
\* to the child with the exact label when there is one, and to the "*" child
\* only when there is none; so with a.c and *.c both set, Get(a.c) returns the
\* value of a.c and Get(z.c) returns the value of *.c.
C6_WildcardPrecedence ==
    got.op = "Get" =>
        /\ \A k \in 1..Len(got.walk) :
               LET part == GetParts[Len(GetParts) + 1 - k]
                   n == WalkedFrom(k)
               IN  /\ Append(n, part) \in DOMAIN trie
                          => got.walk[k] = Append(n, part)
                   /\ (got.walk[k] = Append(n, Star) /\ part # Star)
                          => Append(n, part) \notin DOMAIN trie
        /\ (/\ NodeOf(AppCom) \in DOMAIN trie
            /\ NodeOf(StarCom) \in DOMAIN trie
            /\ trie[NodeOf(AppCom)] # "nil"
            /\ trie[NodeOf(StarCom)] # "nil")
               => /\ got.domain = AppCom => got.value = trie[NodeOf(AppCom)]
                  /\ got.domain = OtherCom => got.value = trie[NodeOf(StarCom)]

\* Both domains are set, to different values, and z.c was looked up.
C6_Witness ==
    /\ got.op = "Get"
    /\ got.domain = OtherCom
    /\ NodeOf(AppCom) \in DOMAIN trie
    /\ NodeOf(StarCom) \in DOMAIN trie
    /\ trie[NodeOf(AppCom)] = "v1"
    /\ trie[NodeOf(StarCom)] = "v2"
    /\ got.value = "v2"

-----------------------------------------------------------------------------
\* Claims about the route table.

\* The routes whose pattern matches the path of the last MatchRoute call.
MatchingRoutes ==
    {i \in 1..Len(Routes) : matchesRoute(matched.path, Routes[i].Pattern)}

RoutePatterns == [i \in 1..Len(Routes) |-> Routes[i].Pattern]

\* C7: MatchRoute(path) selects, among the routes whose pattern matches the
\* path, one with the longest pattern, and the default target when none
\* matches; with the routes /api/*, /api/v1/*, / the path /api/v1/foo selects
\* /api/v1/*, /api/foo selects /api/* and /other selects the default target.
C7_LongestMatch ==
    matched # NoMatchYet =>
        /\ MatchingRoutes = {}
               => ~matched.Matched /\ matched.Target = DefaultTarget
        /\ MatchingRoutes # {}
               => /\ matched.Matched
                  /\ \E i \in MatchingRoutes :
                         /\ matched.Pattern = Routes[i].Pattern
                         /\ matched.Target = Routes[i].Target
                  /\ \A j \in MatchingRoutes :
                         Len(Routes[j].Pattern) <= Len(matched.Pattern)
        /\ RoutePatterns = <<PatApiStar, PatApiV1Star, PatSlash>>
               => /\ matched.path = PathApiV1Foo
                         => matched.Pattern = PatApiV1Star
                  /\ matched.path = PathApiFoo
                         => matched.Pattern = PatApiStar
                  /\ matched.path = PathOther
                         => ~matched.Matched /\ matched.Target = DefaultTarget

\* /api/v1/foo was matched against the three routes: all three were tried in
\* the order /api/v1/*, /api/*, /.
C7_Witness ==
    /\ RoutePatterns = <<PatApiStar, PatApiV1Star, PatSlash>>
    /\ matched.path = PathApiV1Foo
    /\ matched.Matched
    /\ Cardinality(MatchingRoutes) = 2
    /\ matched.Pattern = PatApiV1Star

-----------------------------------------------------------------------------
\* Claims about the sniffers and the peekable connections.

\* The bytes taken from the socket and not yet returned by a Read.
Held == IF bufNil THEN << >> ELSE buf

\* C8: whatever the client sends and however many bytes the sniffer peeked,
\* in its first and in its extended peek, the bytes the Read calls on the
\* wrapped connection return, one after the other, are the bytes of the
\* connection from its first byte on, none lost and none twice: what was
\* returned and what is still held make up what was read from the socket.
C8_PeekReplay ==
    /\ delivered \o Held = SubSeq(wire, 1, pos)
    /\ snpc # "done" => delivered = << >>

\* After a first and an extended peek, several Read calls have returned the
\* whole of a connection of more than 64 bytes.
C8_Witness ==
    /\ impl = "Sniffer"
    /\ more > 0
    /\ bufNil
    /\ Len(wire) > SnifferPeekN
    /\ delivered = wire

\* The rule of the TLS record header.
IsTLSRecord(b) ==
    /\ Len(b) >= 5
    /\ b[1] = 22
    /\ b[2] = 3
    /\ b[3] <= 4
    /\ b[4] * 256 + b[5] > 0
    /\ b[4] * 256 + b[5] <= 16384

\* C9: on every peek buffer the TLS test is true exactly when the buffer has
\* at least 5 bytes, byte 0 is 0x16, byte 1 is 0x03, byte 2 is at most 0x04
\* and the length in bytes 3 and 4 is in 1..16384; and a connection with such
\* a buffer is classified TLS.
C9_TLSRule ==
    /\ impl = "Sniffer" => (SnifferTLS(peeked) <=> IsTLSRecord(peeked))
    /\ impl = "Sniff" => (SniffTLS(peeked) <=> IsTLSRecord(peeked))
    /\ snpc = "done" => (proto = "tls" <=> IsTLSRecord(peeked))

\* A record of the largest length, 16384, was classified TLS.
C9_Witness ==
    /\ snpc = "done"
    /\ proto = "tls"
    /\ Len(peeked) >= 5
    /\ peeked[4] = 64
    /\ peeked[5] = 0

\* The first 512 bytes of a connection.
Window(w) == SubSeq(w, 1, Min(Len(w), MaxPeek))

\* The connection starts with a recognized method and has the token HTTP/1.
\* or HTTP/2 in its first 512 bytes.
IsHTTPRequest(w) ==
    /\ \E method \in httpMethods : HasPrefix(w, method)
    /\ Contains(Window(w), TokenHTTP1) \/ Contains(Window(w), TokenHTTP2)

\* C10: a connection that starts with a request line of a recognized method
\* and has the token in its first 512 bytes is classified HTTP, wherever the
\* token lies in the window and however the bytes are split over the reads
\* (no read of the sniffer having ended on its deadline or on EOF).
C10_HTTPRule ==
    (snpc = "done" /\ ~failed /\ IsHTTPRequest(wire)) => proto = "http"

-----------------------------------------------------------------------------
\* Claims about the metered streams.

\* C11: after any sequence of Read and Write calls through the wrapper,
\* IngressBytes is the sum of the n > 0 the reads returned and EgressBytes
\* the sum of the n > 0 the writes returned; a call that returns (0, err)
\* adds nothing; and the wrapper returns the (n, err) of the stream below.
C11_MetricsExact ==
    /\ IngressBytes = readSum
    /\ EgressBytes = writeSum
    /\ (io.op = "Read" /\ io.n = 0) => IngressBytes = io.before
    /\ (io.op = "Write" /\ io.n = 0) => EgressBytes = io.before
    /\ io.retn = io.n
    /\ io.reterr = io.err

\* A read that returned bytes together with an error was counted, after
\* other reads and writes.
C11_Witness ==
    /\ io.op = "Read"
    /\ io.n > 0
    /\ io.err = "EOF"
    /\ IngressBytes = io.before + io.n
    /\ io.before > 0
    /\ EgressBytes > 0

-----------------------------------------------------------------------------
\* Claims about the HTTP relay.

\* C12: requests without "Connection: close" are served one after the other on
\* the same client connection: whenever the relay is about to read a request,
\* the client connection is open, every request read so far got exactly one
\* backend dial and one response, and every backend connection dialed is
\* closed again; and when nothing but ordinary exchanges happened, the relay
\* closes the client connection only because the read of the next request
\* found the stream ended (io.EOF or a broken stream).
C12_KeepAlive ==
    /\ rpc = "ReadRequest" =>
          /\ clientConn = "open"
          /\ backend # "open"
          /\ rlog.dials = rlog.nreq
          /\ rlog.closes = rlog.dials
          /\ Len(written) = rlog.nreq
    /\ (clientConn = "closed" /\ rlog.clean /\ rlog.nreq > 0) =>
          /\ rlog.exit \in {"EOF", "error"}
          /\ rlog.dials = rlog.nreq
          /\ rlog.closes = rlog.dials
          /\ Len(written) = rlog.nreq

\* Several requests were served on one connection, with one dial each, before
\* the client ended the stream.
C12_Witness ==
    /\ rpc = "done"
    /\ rlog.clean
    /\ rlog.exit = "EOF"
    /\ rlog.nreq = MaxRequests
    /\ rlog.dials = MaxRequests
    /\ rlog.closes = MaxRequests
    /\ clientConn = "closed"

\* a is the beginning of b.
IsPrefix(a, b) == Len(a) <= Len(b) /\ a = SubSeq(b, 1, Len(a))

C14_KeepAliveDecision ==
    rlog.decided # "none" =>
        (rlog.decided = "close" <=>
            \/ req.proto = "1.0" /\ ~EqualFold(req.connection, "keep-alive")
            \/ /\ req.proto = "1.1"
               /\ EqualFold(req.connection, "close") \/ resp.wire = "close")

\* The 502 replies among the responses written to the client.
BadGateways == {i \in 1..Len(written) : written[i] = StatusBadGateway}

\* C15: when the dial of the backend, the write of the request or the read of
\* the response fails, the handler has ended: exactly one 502 was written to
\* the client, as the last reply, no backend connection is open, and the
\* client connection is closed.
C15_BackendFailure ==
    rlog.fail # "none" =>
        /\ rpc = "done"
        /\ Cardinality(BadGateways) = 1
        /\ written[Len(written)] = StatusBadGateway
        /\ backend # "open"
        /\ rlog.closes = rlog.dials
        /\ clientConn = "closed"

\* The read of a response failed on a later request of the connection: the
\* backend dialed for it was closed and the client got a 502.
C15_Witness ==
    /\ rlog.fail = "read"
    /\ rlog.nreq > 1
    /\ backend = "closed"
    /\ rlog.dials = rlog.nreq
    /\ Len(written) = rlog.nreq
    /\ clientConn = "closed"

\* C16: every request read from the connection has been checked against the
\* limiter of the entry by the time a backend is dialed for it.
C16_EntryLimitPerRequest ==
    (entry.limiter /\ rpc = "Dial") => rlog.entryChecks >= rlog.nreq

\* C17: no backend is dialed for a request whose Host has no entry, such a
\* request is answered with 404 and the connection closed; a connection whose
\* SNI has no entry is closed with nothing written and nothing dialed.
C17_UnknownHost ==
    /\ rpc \in {"WriteRequest", "ReadResponse", "WriteResponse", "Written"}
          => GetProxy(req.host)
    /\ (rpc = "done" /\ req # NoRequest /\ ~GetProxy(req.host)) =>
          /\ written # <<>>
          /\ written[Len(written)] = StatusNotFound
          /\ clientConn = "closed"
    /\ (rpc = "done" /\ ~GetProxy(rlog.sni)) =>
          /\ written = <<>>
          /\ rlog.dials = 0
          /\ clientConn = "closed"

\* The handler has returned, or Stream can never return: every copy task is
\* done or blocked on the full errch, or Stream waits on an errch nobody will
\* send on.
RelayFinal ==
    \/ rpc = "done"
    \/ /\ rpc = "Stream"
       /\ \A s \in Peers :
             \/ ws.task[s] = "done"
             \/ ws.task[s] = "send" /\ SendsResult(rfile, ws.tret[s])
                                    /\ Len(ws.rerrch) = ErrchCap
       /\ (\A s \in Peers : ws.task[s] = "done") =>
             ws.wpc = "recv" /\ ws.rerrch = <<>>

\* C18: in every final state of the handler of a connection the client
\* connection and every backend connection dialed for it are closed.
C18_ResourceRelease ==
    RelayFinal => clientConn = "closed" /\ backend # "open"

-----------------------------------------------------------------------------
\* More claims about the trie.

\* The nodes that hold a value.
Stored == {n \in DOMAIN trie : trie[n] # "nil"}

\* Node n lies at the depth of the labels parts and agrees with them, label by
\* label or by "*".
Matches(n, parts) ==
    /\ Len(n) = Len(parts)
    /\ \A i \in 1..Len(n) : n[i] = parts[Len(parts) + 1 - i] \/ n[i] = Star

\* The labels of q are the last labels of d, and d has more.
IsProperSuffix(q, d) ==
    LET pq == Split(q, Dot)
        pd == Split(d, Dot)
    IN  /\ Len(pq) < Len(pd)
        /\ pq = SubSeq(pd, Len(pd) - Len(pq) + 1, Len(pd))

ExtCom == <<"y", ".", "a", ".", "c">>

\* C19: Get returns a value only from a node at the exact depth of the domain
\* whose labels match it, and that node's value; it returns nothing when the
\* walk stops early or ends on a node without value, so nothing for a proper
\* suffix of a stored domain that is not stored itself, and nothing for an
\* extension of a stored domain whose node has no children.
C19_ExactDepth ==
    got.op = "Get" =>
        /\ got.value # "nil" =>
               \E n \in Stored : Matches(n, GetParts) /\ got.value = trie[n]
        /\ got.walk[Len(got.walk)] = NoNode => got.value = "nil"
        /\ (got.walk[Len(got.walk)] # NoNode
               /\ trie[got.walk[Len(got.walk)]] = "nil") => got.value = "nil"
        /\ \A d \in Domains :
               (/\ NodeOf(d) \in Stored
                /\ IsProperSuffix(got.domain, d)
                /\ NodeOf(got.domain) \notin Stored) => got.value = "nil"
        /\ \A d \in Domains :
               (/\ NodeOf(d) \in Stored
                /\ IsProperSuffix(d, got.domain)
                /\ ChildCount(trie, NodeOf(d)) = 0) => got.value = "nil"

\* a.c is stored, its node has no children, and Get(y.a.c) found nothing
\* after walking down to the node of a.c.
C19_Witness ==
    /\ got.op = "Get"
    /\ got.domain = ExtCom
    /\ NodeOf(AppCom) \in Stored
    /\ ChildCount(trie, NodeOf(AppCom)) = 0
    /\ Len(got.walk) = 3
    /\ got.walk[2] = NodeOf(AppCom)
    /\ got.value = "nil"

\* Node p is on the path to n and nothing hangs below it but the rest of that
\* path, which holds no value except n's.
OnlyLeadsTo(t, p, n) ==
    /\ p # Root
    /\ p \in Prefixes(n)
    /\ \A m \in DOMAIN t :
          (Len(m) >= Len(p) /\ SubSeq(m, 1, Len(p)) = p) =>
              /\ m \in Prefixes(n)
              /\ m = n \/ t[m] = "nil"

\* No node but the root is without value and without children.
NoDanglingNode ==
    \A m \in DOMAIN trie \ {Root} :
        trie[m] # "nil" \/ ChildCount(trie, m) > 0

XAC == <<"x", ".", "a", ".", "c">>

OCom == <<"o", ".", "c">>

\* C20: with Set and Delete only, no node but the root is ever left without
\* value and without children; and a Delete of a stored domain d removes
\* exactly the nodes of d's path below the first ancestor that has a value or
\* another child, leaves d without value, and leaves every other stored
\* domain retrievable with its value.
C20_Delete ==
    /\ []NoDanglingNode
    /\ [][(got'.op = "Delete" /\ got'.value = "true") =>
            LET n == NodeOf(got'.domain)
            IN  /\ n \in DOMAIN trie /\ trie[n] # "nil"
                /\ n \in DOMAIN trie' => trie'[n] = "nil"
                /\ DOMAIN trie' =
                      DOMAIN trie \ {p \in DOMAIN trie : OnlyLeadsTo(trie, p, n)}
                /\ \A m \in DOMAIN trie' \ {n} : trie'[m] = trie[m]
                /\ \A e \in Domains \ {got'.domain} :
                      (NodeOf(e) \in DOMAIN trie /\ trie[NodeOf(e)] # "nil")
                          => Get(trie', e).value = trie[NodeOf(e)]
          ]_vars

\* Delete(x.a.c) collapsed the nodes x and a and stopped at c, which still has
\* the child o of the stored o.c.
C20_Witness ==
    /\ got.op = "Delete"
    /\ got.value = "true"
    /\ got.domain = XAC
    /\ NodeOf(XAC) \notin DOMAIN trie
    /\ NodeOf(AppCom) \notin DOMAIN trie
    /\ NodeOf(OCom) \in Stored
    /\ trie[NodeOf(<<"c">>)] = "nil"

\* The strings in a list.
Elements(seq) == {seq[i] : i \in 1..Len(seq)}

\* C21: GetKeysWithVal returns the domains that were Set and not deleted
\* since (by Delete or DeleteValue), each once and each spelled as it was
\* Set.
C21_Keys ==
    got.op = "GetKeysWithVal" =>
        /\ Elements(got.keys) = live
        /\ Len(got.keys) = Cardinality(live)

\* Keys were listed while a.c and another domain were live, and x.a.c had
\* lost its value by DeleteValue, its node still in the trie.
C21_Witness ==
    /\ got.op = "GetKeysWithVal"
    /\ AppCom \in live
    /\ Cardinality(live) >= 2
    /\ XAC \notin live
    /\ NodeOf(XAC) \in DOMAIN trie
    /\ AppCom \in Elements(got.keys)

-----------------------------------------------------------------------------
\* Claims about matchesRoute.

SlashStar == <<"/", "*">>

\* C22: matchesRoute(path, pattern) is true exactly when the path equals the
\* pattern, or the pattern is P/* and the path equals P or starts with P/, or
\* the pattern does not end in /* and the path starts with the pattern and
\* has a / right after it; /api and /api/* do not match /apiary.
C22_MatchRule ==
    mDone =>
        /\ mResult <=>
               \/ mPath = mPattern
               \/ /\ HasSuffix(mPattern, SlashStar)
                  /\ LET P == SubSeq(mPattern, 1, Len(mPattern) - 2)
                     IN  \/ mPath = P
                         \/ /\ Len(mPath) > Len(P)
                            /\ SubSeq(mPath, 1, Len(P) + 1) = P \o <<"/">>
               \/ /\ ~HasSuffix(mPattern, SlashStar)
                  /\ Len(mPath) > Len(mPattern)
                  /\ SubSeq(mPath, 1, Len(mPattern)) = mPattern
                  /\ mPath[Len(mPattern) + 1] = "/"
        /\ mPath = PathApiary /\ mPattern \in {PatApi, PatApiStar}
               => ~mResult

\* /apiary was tried against /api and refused.
C22_Witness ==
    /\ mDone
    /\ mPath = PathApiary
    /\ mPattern = PatApi
    /\ ~mResult

-----------------------------------------------------------------------------
\* Claims about the result of MatchRoute.

\* The routes MatchRoute may have returned: their pattern matches the path
\* of the last call and is the pattern of the result.
Returned ==
    {i \in 1..Len(Routes) :
        /\ matchesRoute(matched.path, Routes[i].Pattern)
        /\ Routes[i].Pattern = matched.Pattern
        /\ Routes[i].Target = matched.Target}

RestAfter(path, pre) == SubSeq(path, Len(pre) + 1, Len(path))

\* C23: when no pattern matches the path MatchRoute returns the default
\* target, the path unchanged and Matched = false; when a route matches it
\* returns that route's target and the path rewritten by the route's rule:
\* unchanged without a rule, /v1/api at the start replaced by / for the rule
\* of TestConfig (so /v1/api becomes /), every /v1 replaced by /v2 for the
\* literal rule, and unchanged for the rule whose expression does not compile
\* and does not occur in the path.
C23_RouteResult ==
    matched # NoMatchYet =>
        /\ MatchingRoutes = {}
               => /\ ~matched.Matched
                  /\ matched.Target = DefaultTarget
                  /\ matched.RewrittenPath = matched.path
        /\ MatchingRoutes # {}
               => /\ matched.Matched
                  /\ \E i \in Returned :
                         LET rule == Routes[i].RewriteRule
                             V1Api == Tail(FromV1Api)
                         IN  /\ rule.nil
                                    => matched.RewrittenPath = matched.path
                             /\ rule = TestRule
                                    => matched.RewrittenPath =
                                           IF HasPrefix(matched.path, V1Api)
                                           THEN <<"/">> \o
                                                RestAfter(matched.path, V1Api)
                                           ELSE matched.path
                             /\ rule = RewriteRule(V1, V2)
                                    => matched.RewrittenPath =
                                           [k \in 1..Len(matched.path) |->
                                               IF /\ k >= 3
                                                  /\ SubSeq(matched.path,
                                                            k - 2, k) = V1
                                               THEN "2"
                                               ELSE matched.path[k]]
                             /\ rule = RewriteRule(FromUnclosed, V2)
                                    => matched.RewrittenPath = matched.path
        /\ Routes = TestConfig
               => /\ matched.path = PathV1Api
                         => matched.RewrittenPath = <<"/">>
                  /\ matched.path = PathApiCreate
                         => /\ matched.RewrittenPath = PathApiCreate
                            /\ matched.Target = "localhost:3000"
                  /\ matched.path = PatHealth
                         => matched.RewrittenPath = PatHealth

\* /v1/api was matched against the routes of TestConfig and rewritten to /.
C23_Witness ==
    /\ Routes = TestConfig
    /\ matched.path = PathV1Api
    /\ matched.Matched
    /\ matched.Target = "localhost:8001"
    /\ matched.RewrittenPath = <<"/">>

\* No route matched /other: the default target and the path as it was.
C23_WitnessDefault ==
    /\ Routes = TestConfig
    /\ matched.path = PathOther
    /\ ~matched.Matched
    /\ matched.RewrittenPath = PathOther

-----------------------------------------------------------------------------
\* Claims about the order of the routes.

\* a comes before b in the lexicographic order, or is b.
LexLeq(a, b) ==
    \/ a = b
    \/ \E k \in 1..Len(a) :
           /\ k <= Len(b)
           /\ \A h \in 1..(k - 1) : a[h] = b[h]
           /\ Byte[a[k]] < Byte[b[k]]
    \/ Len(a) < Len(b) /\ \A h \in 1..Len(a) : a[h] = b[h]

\* C24: after the load and after every AddRoute and RemoveRoute, sortedRoutes
\* holds the routes of p.Routes, each as often as it is there, with the
\* longer pattern first and patterns of one length in ascending
\* lexicographic order.
C24_RouteOrder ==
    /\ Len(sortedRoutes) = Len(Routes)
    /\ \E f \in Orders(Len(Routes)) :
           sortedRoutes = [i \in 1..Len(Routes) |-> Routes[f[i]]]
    /\ \A i, j \in 1..Len(sortedRoutes) :
           i < j =>
               LET a == sortedRoutes[i].Pattern
                   b == sortedRoutes[j].Pattern
               IN  \/ Len(a) > Len(b)
                   \/ Len(a) = Len(b) /\ LexLeq(a, b)

\* /v2/* was added before /v1/*, which is of the same length: the sorted list
\* has /health first and /v1/* before /v2/*.
C24_Witness ==
    /\ Len(Routes) = 3
    /\ Routes[1].Pattern = PatHealth
    /\ Routes[2].Pattern = PatV2Star
    /\ Routes[3].Pattern = PatV1Star
    /\ sortedRoutes[2].Pattern = PatV1Star
    /\ sortedRoutes[3].Pattern = PatV2Star

-----------------------------------------------------------------------------
\* Claims about a limiter created with a zero rate or burst.

\* C25: a limiter created with rate = 0 or with burst = 0 is disabled: every
\* Allow and AllowIP call on it returns allow.
C25_Disabled ==
    (lim.rps = 0 \/ lim.burstOpt = 0) => call.res # "deny"

-----------------------------------------------------------------------------
\* Claims about the loading of the configuration.

\* An entry the configuration must be refused for: no target, a route
\* without a target, or a route whose rewrite expression is not a regular
\* expression.
Offending(proxy) ==
    /\ ~proxy.absent
    /\ \/ proxy.Target = ""
       \/ \E i \in 1..Len(proxy.Routes) :
              \/ proxy.Routes[i].Target = ""
              \/ /\ ~proxy.Routes[i].RewriteRule.nil
                 /\ Compile(proxy.Routes[i].RewriteRule.From).err

\* C26: the load returns an error when an entry of the document has no
\* target, has a route without a target or has a route whose rewrite from is
\* not a regular expression, and registers no Proxy for such a domain;
\* AddProxyWithRoutes refuses such an entry too and leaves the domain as it
\* was.
C26_Validation ==
    /\ cfgOp.op = "Load" =>
           /\ (\E d \in CfgDomains : Offending(configFile[d]))
                  => cfgOp.err # "nil"
           /\ \A d \in CfgDomains :
                  Offending(configFile[d]) => Proxies[d].nil
           /\ cfgOp.err # "nil" => Offending(configFile[cfgOp.domain])
    /\ cfgOp.op = "AddProxyWithRoutes" /\ Offending(cfgOp.arg) =>
           /\ cfgOp.err # "nil"
           /\ Proxies[cfgOp.domain] = cfgOp.before

\* api.com was loaded before app.com, whose second route has an expression
\* that does not compile: the load failed, api.com is registered and app.com
\* is not.
C26_Witness ==
    /\ cfgOp.op = "Load"
    /\ cfgOp.err = "invalid regex"
    /\ cfgOp.domain = "app.com"
    /\ Len(configFile["app.com"].Routes) = 2
    /\ ~Offending(configFile["api.com"])
    /\ ~Proxies["api.com"].nil
    /\ Proxies["app.com"].nil


\* C27: a rate_limit block with cooldown: N yields a limiter whose cooldown
\* lasts N milliseconds, that is 1000 * N microseconds: 60 seconds for
\* cooldown: 60000.
C27_CooldownMillis ==
    cfgOp.op = "Load" =>
        \A d \in CfgDomains :
            LET lc == configFile[d].Limiter
            IN  (~Proxies[d].nil /\ ~lc.nil /\ lc.Cooldown > 0) =>
                    /\ Proxies[d].Limiter.cooldown = 1000 * lc.Cooldown
                    /\ lc.Cooldown = 60000 =>
                           Proxies[d].Limiter.cooldown = 60 * 1000000

-----------------------------------------------------------------------------
\* Claims about the accept loop.

\* C28: once the root context is cancelled or the listener is closed, the
\* accept loop returns, also when no further client connects.
C28_Shutdown == (rootDone \/ lnState = "closed") ~> apc = "returned"

\* C34: a handler that returns an error leaves the accept loop where it is;
\* after an error of Accept other than net.ErrClosed the loop goes round
\* again; the loop returns only when Accept reports the closed listener
\* (with nil) or when the select finds the root context cancelled.
C34_Isolation ==
    [][/\ handlerErrs' # handlerErrs => (apc' = apc /\ aret' = aret)
       /\ acceptErrs' # acceptErrs => (apc' = "select" /\ aret' = aret)
       /\ (apc # "returned" /\ apc' = "returned")
              => \/ apc = "accept" /\ lnState = "closed" /\ aret' = "nil"
                 \/ apc = "select" /\ rootDone /\ aret' = "ctx.Err"]_vars

\* Handlers have failed and Accept has failed, and the loop accepts on.
C34_Witness ==
    /\ handlerErrs > 0
    /\ acceptErrs > 0
    /\ apc = "accept"
    /\ handlers > hended

-----------------------------------------------------------------------------
\* Claims about StreamWithContext.

\* C29: when the context given to StreamWithContext is cancelled while both
\* directions are blocked in Read, both connections are closed, both copy
\* tasks end, and StreamWithContext returns the context's error.
C29_Cancellation ==
    atCancel ~> /\ wpc = "returned"
                /\ result = "ctxErr"
                /\ \A s \in Sides : connClosed[s]
                /\ \A d \in Sides : cpc[d] = "done"

-----------------------------------------------------------------------------
\* Claims about concurrent calls of the limiter.

\* C30: whatever the interleaving of the concurrent allow(ip) calls of one IP,
\* the calls that race to create the bucket included, all calls draw from one
\* bucket: with no refill at most burst calls are allowed in total.
C30_SharedBucket ==
    /\ nallowed <= cburst
    /\ \A g, h \in Goroutines :
           cbuckets[g].made /\ cbuckets[h].made => g = h

-----------------------------------------------------------------------------
\* More claims about the Streamer.

\* Both copy tasks have ended with a read or a write error.
BothFailed == \A d \in Sides : cret[d] \in {"readErr", "writeErr"}

\* C31: when both copy directions of Stream end with an error, Stream still
\* returns, with one of the two errors, and no copy task stays blocked on the
\* send of the later error.
C31_FirstErrorOnly ==
    [](BothFailed =>
          <>(/\ spc = "returned"
             /\ result \in {cret["src"], cret["dst"]}
             /\ \A d \in Sides : cpc[d] = "done"))

-----------------------------------------------------------------------------
\* Claims about the dispatcher.

\* The TLS and the HTTP rule of the sniffer in use.
RuleTLS(pk) == IF impl = "Sniff" THEN SniffTLS(pk) ELSE SnifferTLS(pk)

RuleHTTP(pk) == IF impl = "Sniff" THEN SniffHTTP(pk) ELSE SnifferHTTP(pk)

\* C32: a connection that sent no byte before the deadline of the peek, and
\* any peeked buffer that is empty or satisfies neither the TLS nor the HTTP
\* rule, is classified TCP; the sniffer always answers with a protocol, never
\* with an error; the TCP handler closes the connection, dials no backend and
\* returns nil.
C32_SnifferDefault ==
    /\ snpc = "done" => proto \in {"tls", "http", "tcp"}
    /\ (snpc = "done" /\ failed /\ pos = 0) => proto = "tcp"
    /\ (snpc = "done" /\ (Len(peeked) = 0
                            \/ (~RuleTLS(peeked) /\ ~RuleHTTP(peeked))))
           => proto = "tcp"
    /\ (snpc = "done" /\ proto = "tcp" /\ dpc # "sniff")
           => /\ dpc = "returned"
              /\ dbranch = "tcp"
              /\ dclosed
              /\ ~ddialed
              /\ dret = "nil"

\* A client that sent bytes of neither protocol has been classified TCP and
\* its connection closed.
C32_Witness ==
    /\ snpc = "done"
    /\ Len(peeked) > 0
    /\ ~RuleTLS(peeked)
    /\ ~RuleHTTP(peeked)
    /\ dpc = "returned"
    /\ dbranch = "tcp"
    /\ dclosed

\* A silent client has been classified TCP on the deadline and its
\* connection closed.
C32_WitnessSilent ==
    /\ snpc = "done"
    /\ failed
    /\ pos = 0
    /\ dpc = "returned"
    /\ dbranch = "tcp"


\* C33: a connection sniffed as TLS goes to the HTTP relay exactly when the
\* handshake succeeded and negotiated h2 or http/1.1; with any other
\* protocol, none included, it goes to the TLS pass-through, which looks up
\* the server name; after a failed handshake the connection is closed and no
\* backend is dialed.
C33_TLSBranch ==
    (proto = "tls" /\ dpc # "sniff") =>
        /\ dbranch = "http" <=> (hsOk = "ok" /\ hsALPN \in {"h2", "http/1.1"})
        /\ (hsOk = "ok" /\ hsALPN \notin {"h2", "http/1.1"})
               => dbranch = "tls"
        /\ (dbranch = "tls" /\ ddialed) => GetProxy(hsSNI)
        /\ hsOk = "failed" => ~ddialed
        /\ (hsOk = "failed" /\ dpc = "returned") => dclosed

-----------------------------------------------------------------------------
\* Claims about the byte deltas of the metrics.

\* C35: whatever the interleaving of the Add calls and of the delta getters,
\* two getters at once included, no returned delta exceeds the bytes counted
\* so far, and with no getter under way the returned deltas add up to the
\* counter's value at the last snapshot.
C35_DeltaAtomic ==
    /\ deltaLast <= dcounter
    /\ (\A q \in Callers : qpc[q] = "idle") => deltaSum = dlastSnap

-----------------------------------------------------------------------------
\* More claims about the rate limiter.

\* The step is a call for ip made while the IP's cooldown runs.
CallInCooldown(ip) ==
    /\ ncalls'[ip] = ncalls[ip] + 1
    /\ clients[ip].exists
    /\ now < clients[ip].cooldown

\* C36: a call of allow(ip) made while now < cooldown_until returns deny and
\* leaves the bucket as it was: no token taken, the limiter not advanced,
\* cooldown_until and last_seen not moved; the other buckets are untouched.
C36_DeniedNoOp ==
    [][\A ip \in IPs :
           CallInCooldown(ip) => /\ call'.res = "deny"
                                 /\ call'.why = "cooldown"
                                 /\ clients' = clients]_vars

\* A call denied by the cooldown, later than the IP was last seen and with a
\* token to take, has left the bucket with its cooldown and its last_seen.
C36_Witness ==
    /\ call.why = "cooldown"
    /\ call.avail >= TicksPerSecond
    /\ call.t > clients[call.ip].lastSeen
    /\ clients[call.ip].cooldown = call.denied + lim.cooldown


\* C37: whatever the ages Cleanup is called with and however its calls fall
\* between the calls of allow, an IP denied at time t on an empty bucket keeps
\* its bucket, with cooldown_until = t + cooldown, while now < t + cooldown,
\* and every call from it at a time in [t, t + cooldown) is denied.
C37_PenaltyKept ==
    /\ \A ip \in IPs :
           (emptyDeny[ip] # 0 /\ now < emptyDeny[ip] + lim.cooldown)
               => /\ clients[ip].exists
                  /\ clients[ip].cooldown = emptyDeny[ip] + lim.cooldown
    /\ (call.denied # 0 /\ call.t < call.denied + lim.cooldown)
           => call.res # "allow"

-----------------------------------------------------------------------------
\* Claims about concurrent calls of the trie.

\* C38: when Set(d1, v) runs beside Delete(d2), d2 a suffix of d1 or a
\* sibling of it, Set ends, and once both have ended Get(d1) returns v.
C38_NoLostInsert ==
    /\ setPc # "panic"
    /\ (setPc = "done" /\ delPc = "done") => TrieGetHeap(heap, setDom) = "v2"

-----------------------------------------------------------------------------
\* A claim about the completeness of the trie's lookup.

\* C39: Get(d) returns a value whenever a stored pattern with as many labels
\* as d matches d label by label ("*" matching any label), also when an exact
\* label on the way exists and leads to no stored value.
C39_WildcardComplete ==
    got.op = "Get" =>
        ((\E n \in Stored : Matches(n, GetParts)) => got.value # "nil")

-----------------------------------------------------------------------------
\* A claim about a configuration that is refused.

\* C40: when LoadBytes returns an error the trie holds what it held before the
\* call, here nothing: no domain of the refused document is registered.
C40_AtomicLoad ==
    (cfgOp.op = "Load" /\ cfgOp.err # "nil")
        => \A d \in CfgDomains : Proxies[d] = NoProxy

=============================================================================
